---- MODULE Spec2Model ----
(***************************************************************************)
(* Course / gate editing state machine, gate-pair aggregator and per-track *)
(* segment-time orchestrator of the TREES front end                        *)
(* (src/public/assets/js/config.js, state in src/unnamed/part_003).        *)
(*                                                                         *)
(* The application is single threaded and event driven: every action below *)
(* is one handler run to its first suspension point, or the continuation   *)
(* of a handler after a network response.                                  *)
(***************************************************************************)
EXTENDS Integers, Sequences, FiniteSets, TLC

VARIABLES
    timeGates,          \* flat list of gates
    pairCheckpoints,    \* Map pairId -> sequence of checkpoints
    pairNames,          \* Map pairId -> custom name
    bufferMeters,
    isCreatingCourse,
    selectedCourseId,
    selectedCourse,
    leaderboard,
    gateMarkers,        \* rendered gate markers
    checkpointMarkers,  \* rendered checkpoint markers
    tracks,             \* the array this.tracks
    selectedTrackIds,
    trackLayers,        \* rendered polylines and end markers
    runs,               \* recalcAllSegmentTimes invocations awaiting a response
    loadedCount,        \* number of tracks loaded so far (track identities)
    issued,             \* per track: the most recently issued /segment-times request
    courseFetches,      \* loadSelectedCourse invocations awaiting GET /courses/{id}
    lbFetches,          \* fetchLeaderboard invocations awaiting GET /leaderboard/{id}
    mounted,            \* the mounted hook has run
    activePanel,        \* ui.activePanel
    refreshingCourses,  \* guard of refreshCoursesGrid
    listFetches,        \* loadCourses invocations awaiting GET /courses_summary
    courses,            \* the course list as received
    coursesGrid,        \* the course list sorted for the grid
    newCourse,          \* the new-course form
    saveFetches,        \* saveAdvancedCourse invocations awaiting a response
    lastCall            \* the handler that took the last step, and the calls it made

gateVars   == <<timeGates, pairCheckpoints, pairNames, gateMarkers, checkpointMarkers>>
courseVars == <<bufferMeters, isCreatingCourse, selectedCourseId, selectedCourse>>
overlayVars == <<selectedTrackIds, trackLayers, loadedCount>>
trackVars  == <<tracks, selectedTrackIds, trackLayers, loadedCount>>
runVars    == <<runs, issued>>
netVars    == <<courseFetches, lbFetches>>
listVars   == <<refreshingCourses, listFetches, courses, coursesGrid>>
uiVars     == <<mounted, activePanel, listVars, newCourse, saveFetches>>
vars == <<timeGates, pairCheckpoints, pairNames, bufferMeters, isCreatingCourse,
          selectedCourseId, selectedCourse, leaderboard, gateMarkers,
          checkpointMarkers, tracks, selectedTrackIds, trackLayers, runs,
          loadedCount, issued, courseFetches, lbFetches, uiVars, lastCall>>

(***************************************************************************)
(* Bounds of the model.                                                    *)
(***************************************************************************)
MaxPairs == 2          \* pairs held in timeGates at once
MaxCheckpoints == 2    \* checkpoints per pair added by addCheckpoint
MaxFetches == 1        \* course / leaderboard fetches in flight at once
MaxTracks == 2         \* tracks loaded over a behaviour
MaxRuns == 2           \* overlapping recalcAllSegmentTimes runs
MaxListFetches == 2    \* course-list fetches in flight at once

(***************************************************************************)
(* Program constants.                                                      *)
(***************************************************************************)
DefaultBufferMeters == 10
PaletteSize == 8

Null == 0                       \* null course id / course
Offset == 1                     \* addGatePair's 0.001 degree, in units of 0.001
GateTypes == {"start", "end"}
NoPanel == "null"               \* ui.activePanel: null
\* newCourse: { name: "", description: "", imageFile: null, imagePreview: null }
EmptyForm == [name |-> "", imageFile |-> FALSE]

(***************************************************************************)
(* Map helpers (JavaScript Map: get / set / delete / clear).               *)
(***************************************************************************)
EmptyMap == << >>
MapHas(m, k) == k \in DOMAIN m
MapSet(m, k, v) == [x \in (DOMAIN m) \cup {k} |-> IF x = k THEN v ELSE m[x]]
MapDelete(m, k) == [x \in (DOMAIN m) \ {k} |-> m[x]]

\* a || b on names: undefined and "" are both falsy
OrName(a, b) == IF a # "" THEN a ELSE b
\* pairNames.get(k): undefined (falsy, modelled as "") when absent
NameGet(m, k) == IF k \in DOMAIN m THEN m[k] ELSE ""
\* pairCheckpoints.get(k) || []
CheckpointsGet(m, k) == IF k \in DOMAIN m THEN m[k] ELSE << >>

DefaultName(pairId) == "Gate Pair " \o ToString(pairId)

(***************************************************************************)
(* Gate/Pair Aggregator: the computed property gatePairs.                  *)
(* Map `groups` is kept as the sequence of its entries in insertion order; *)
(* a null start / end is << >>, a present one is <<gate>>.                 *)
(***************************************************************************)
GroupIndex(groups, pairId) ==
    IF \E k \in 1..Len(groups) : groups[k].pairId = pairId
    THEN CHOOSE k \in 1..Len(groups) : groups[k].pairId = pairId
    ELSE 0

\* entry.start?.confirmed, entry.start?.editing
OptConfirmed(opt) == opt # << >> /\ opt[1].confirmed
OptEditing(opt) == opt # << >> /\ opt[1].editing

\* the name an entry gets while gate g is processed
EntryNameBug(customName, gateName, entryName) == OrName(gateName, OrName(customName, entryName))
EntryName(customName, gateName, entryName) == OrName(customName, OrName(gateName, entryName))

\* entry.confirmed / entry.editing from the entry's start and end
EntryConfirmedBug(start, end) == OptConfirmed(start) \/ OptConfirmed(end)
EntryConfirmed(start, end) == OptConfirmed(start) /\ OptConfirmed(end)
EntryEditing(start, end) == OptEditing(start) \/ OptEditing(end)

\* one iteration of `for (const g of this.timeGates)`
GroupStep(groups, g, cps, names) ==
    LET customName == NameGet(names, g.pairId)
        at == GroupIndex(groups, g.pairId)
        fresh == [pairId |-> g.pairId,
                  name |-> EntryName(customName, g.name, DefaultName(g.pairId)),
                  start |-> << >>, end |-> << >>,
                  checkpoints |-> CheckpointsGet(cps, g.pairId),
                  confirmed |-> FALSE, editing |-> FALSE]
        withEntry == IF at = 0 THEN Append(groups, fresh) ELSE groups
        k == IF at = 0 THEN Len(withEntry) ELSE at
        e0 == withEntry[k]
        e1 == IF g.type = "start" THEN [e0 EXCEPT !.start = <<g>>]
                                  ELSE [e0 EXCEPT !.end = <<g>>]
        e2 == [e1 EXCEPT !.name = EntryName(customName, g.name, e1.name),
                         !.confirmed = EntryConfirmed(e1.start, e1.end),
                         !.editing = EntryEditing(e1.start, e1.end),
                         !.checkpoints = CheckpointsGet(cps, g.pairId)]
    IN  [withEntry EXCEPT ![k] = e2]

RECURSIVE GroupGates(_, _, _, _, _)
GroupGates(gates, i, groups, cps, names) ==
    IF i > Len(gates) THEN groups
    ELSE GroupGates(gates, i + 1, GroupStep(groups, gates[i], cps, names), cps, names)

IsComplete(p) == p.start # << >> /\ p.end # << >>

\* Array.from(groups.values()).filter(p => p.start && p.end)
CompletePairs(groups) == SelectSeq(groups, IsComplete)

GatePairsOf(gates, cps, names) == CompletePairs(GroupGates(gates, 1, << >>, cps, names))

gatePairs == GatePairsOf(timeGates, pairCheckpoints, pairNames)

\* this.gatePairs.find(p => p.pairId === pairId), as a 0/1-length sequence
FindPair(pairs, pairId) ==
    LET k == GroupIndex(pairs, pairId) IN IF k = 0 THEN << >> ELSE <<pairs[k]>>

(***************************************************************************)
(* Geometry payload builder.                                               *)
(***************************************************************************)
IsConfirmedPairBug(p) == IsComplete(p)
IsConfirmedPair(p) == IsComplete(p) /\ p.confirmed

PayloadEntry(p) ==
    [pairId |-> p.pairId,
     name |-> OrName(p.name, DefaultName(p.pairId)),
     start |-> [lat |-> p.start[1].lat, lon |-> p.start[1].lon],
     end |-> [lat |-> p.end[1].lat, lon |-> p.end[1].lon],
     checkpoints |-> [i \in 1..Len(p.checkpoints) |->
                        [lat |-> p.checkpoints[i].lat, lon |-> p.checkpoints[i].lon]]]

PayloadOf(pairs) ==
    LET kept == SelectSeq(pairs, IsConfirmedPair)
    IN  [i \in 1..Len(kept) |-> PayloadEntry(kept[i])]

gatePairsToApiPayload == PayloadOf(gatePairs)

(***************************************************************************)
(* nextPairId: let i = 1; while (used.has(i)) i += 1; return i             *)
(***************************************************************************)
UsedPairIds(gates) == {gates[i].pairId : i \in 1..Len(gates)}

RECURSIVE FirstUnused(_, _)
FirstUnused(used, i) == IF i \in used THEN FirstUnused(used, i + 1) ELSE i

NextPairIdBug(gates) == Cardinality(UsedPairIds(gates)) + 1
NextPairIdOf(gates) == FirstUnused(UsedPairIds(gates), 1)

nextPairId == NextPairIdOf(timeGates)

(***************************************************************************)
(* Map Synchronization Layer: redrawGates.  Both marker arrays are cleared *)
(* and rebuilt; a marker closes over its gate (index in timeGates) or its  *)
(* checkpoint (pairId, index).                                             *)
(***************************************************************************)
GateDraggableBug(g) == g.editing
GateDraggable(g) == g.editing \/ ~g.confirmed

GateMarkersOf(gates) ==
    [i \in 1..Len(gates) |->
        [gate |-> i, pairId |-> gates[i].pairId, type |-> gates[i].type,
         lat |-> gates[i].lat, lon |-> gates[i].lon,
         draggable |-> GateDraggable(gates[i])]]

PairCheckpointMarkers(pair) ==
    [i \in 1..Len(pair.checkpoints) |->
        [pairId |-> pair.pairId, idx |-> i,
         lat |-> pair.checkpoints[i].lat, lon |-> pair.checkpoints[i].lon,
         draggable |-> pair.editing]]

RECURSIVE CheckpointMarkersFrom(_, _)
CheckpointMarkersFrom(pairs, i) ==
    IF i > Len(pairs) THEN << >>
    ELSE PairCheckpointMarkers(pairs[i]) \o CheckpointMarkersFrom(pairs, i + 1)

CheckpointMarkersOf(pairs) == CheckpointMarkersFrom(pairs, 1)

\* redrawGates() on the model (gates, cps, names) the handler has just written
RedrawGates(gates, cps, names) ==
    /\ gateMarkers' = GateMarkersOf(gates)
    /\ checkpointMarkers' = CheckpointMarkersOf(GatePairsOf(gates, cps, names))

(***************************************************************************)
(* Segment-Time Orchestrator: recalcAllSegmentTimes.                       *)
(*                                                                         *)
(* A track is [id, points, color, segmentTimes]; a freshly loaded track    *)
(* has no segmentTimes field (NoSegmentTimes).  A run is one invocation    *)
(* suspended at `await this.apiPost("/segment-times", ...)` for arr[idx]:  *)
(* gates and buffer_m are the constants built when it started, arr is the  *)
(* array its for-of loop iterates, live says that arr is still the array   *)
(* this.tracks (so that pushes reach the loop).  latest is history: the    *)
(* run's outstanding request is the most recently issued one of its track. *)
(***************************************************************************)
NoSegmentTimes == <<[undefined |-> TRUE]>>

\* the remote service: the segment list of a request (one segment per gate)
Segments(points, gates, buffer_m) ==
    [i \in 1..Len(gates) |->
        [pairId |-> gates[i].pairId, start |-> gates[i].start, end |-> gates[i].end,
         checkpoints |-> gates[i].checkpoints, points |-> points, buffer_m |-> buffer_m]]

\* this.bufferMeters || 10
BufferOrDefault(b) == IF b # 0 THEN b ELSE DefaultBufferMeters

\* t.segmentTimes = seg, on the track object with identity id
SetSegmentTimes(trs, id, seg) ==
    [i \in 1..Len(trs) |->
        IF trs[i].id = id THEN [trs[i] EXCEPT !.segmentTimes = seg] ELSE trs[i]]

ClearAllSegmentTimes(trs) ==
    [i \in 1..Len(trs) |-> [trs[i] EXCEPT !.segmentTimes = << >>]]

\* The for-of loop from position run.idx up to its next await or its end:
\* tracks without points get [] and are skipped.  run is << >> when the loop
\* ended, <<r>> when r now awaits the response for r.arr[r.idx].
RECURSIVE Advance(_, _)
AdvanceBug(trs, run) ==
    IF run.idx > Len(run.arr) THEN [tracks |-> trs, run |-> << >>]
    ELSE [tracks |-> trs, run |-> <<run>>]
Advance(trs, run) ==
    IF run.idx > Len(run.arr) THEN [tracks |-> trs, run |-> << >>]
    ELSE IF Len(run.arr[run.idx].points) = 0
         THEN Advance(SetSegmentTimes(trs, run.arr[run.idx].id, << >>),
                      [run EXCEPT !.idx = @ + 1])
         ELSE [tracks |-> trs, run |-> <<run>>]

\* what the loop reads of the array it iterates: identity and points
ArrOf(trs) == [i \in 1..Len(trs) |-> [id |-> trs[i].id, points |-> trs[i].points]]

NewRun(trs, gates, buffer_m) ==
    [gates |-> gates, buffer_m |-> buffer_m, arr |-> ArrOf(trs), live |-> TRUE,
     idx |-> 1, latest |-> TRUE]

\* recalcAllSegmentTimes() that returns without clearing when no pair is
\* confirmed
RecalcStartBug(trs, gates, bufferM) ==
    IF Len(trs) = 0 \/ Len(gates) = 0
    THEN [tracks |-> trs, run |-> << >>, cleared |-> FALSE]
    ELSE LET a == Advance(trs, NewRun(trs, gates, BufferOrDefault(bufferM)))
         IN  [tracks |-> a.tracks, run |-> a.run, cleared |-> FALSE]

\* recalcAllSegmentTimes() up to its first await, on tracks trs with the
\* payload and buffer read from the model at the time of the call
RecalcStart(trs, gates, bufferM) ==
    IF Len(trs) = 0 THEN [tracks |-> trs, run |-> << >>, cleared |-> FALSE]
    ELSE IF Len(gates) = 0
         THEN [tracks |-> ClearAllSegmentTimes(trs), run |-> << >>, cleared |-> TRUE]
         ELSE LET a == Advance(trs, NewRun(trs, gates, BufferOrDefault(bufferM)))
              IN  [tracks |-> a.tracks, run |-> a.run, cleared |-> FALSE]

\* the request a suspended run is waiting for
RequestOf(run) ==
    [track |-> run.arr[run.idx].id,
     points |-> run.arr[run.idx].points,
     gates |-> run.gates, buffer_m |-> run.buffer_m]

\* history: a new request for a track makes every older outstanding one stale
Demote(rs, newRun) ==
    IF newRun = << >> THEN rs
    ELSE [k \in 1..Len(rs) |->
            IF RequestOf(rs[k]).track = RequestOf(newRun[1]).track
            THEN [rs[k] EXCEPT !.latest = FALSE] ELSE rs[k]]

\* history: the record of the request newRun has just issued (if any); a
\* clear of all tracks forgets the requests that had completed before it
IssuedAfter(iss, cleared, newRun) ==
    LET kept == IF cleared
                THEN [id \in {x \in DOMAIN iss : iss[x].status = "pending"} |-> iss[id]]
                ELSE iss
    IN  IF newRun = << >> THEN kept
        ELSE MapSet(kept, RequestOf(newRun[1]).track,
                    [points |-> RequestOf(newRun[1]).points,
                     gates |-> newRun[1].gates, buffer_m |-> newRun[1].buffer_m,
                     status |-> "pending"])

\* the whole call recalcAllSegmentTimes() made by a handler that leaves the
\* model with gates / cps / names / bufferM
Recalc(gates, cps, names, bufferM) ==
    LET r == RecalcStart(tracks, PayloadOf(GatePairsOf(gates, cps, names)), bufferM)
    IN  /\ tracks' = r.tracks
        /\ runs' = Demote(runs, r.run) \o r.run
        /\ issued' = IssuedAfter(issued, r.cleared, r.run)

RemoveAt(s, k) == [i \in 1..(Len(s) - 1) |-> IF i < k THEN s[i] ELSE s[i + 1]]

(***************************************************************************)
(* The remote services, as far as the client reads their answers.          *)
(***************************************************************************)
CourseIds == {1, 2}

\* GET /courses/{id}
ServerCourse(id) ==
    IF id = 1
    THEN [id |-> 1, buffer_m |-> 25,
          gates |-> << [pairId |-> 1, name |-> "A",
                        start |-> [lat |-> 10, lon |-> 10], end |-> [lat |-> 11, lon |-> 11],
                        checkpoints |-> << [lat |-> 12, lon |-> 12],
                                           [lat |-> 13, lon |-> 13] >>],
                       [pairId |-> 3, name |-> "",
                        start |-> [lat |-> 30, lon |-> 30], end |-> [lat |-> 31, lon |-> 31],
                        checkpoints |-> << >>] >>]
    ELSE [id |-> 2, buffer_m |-> 50,
          gates |-> << [pairId |-> 2, name |-> "B",
                        start |-> [lat |-> 20, lon |-> 20], end |-> [lat |-> 21, lon |-> 21],
                        checkpoints |-> << >>] >>]

\* GET /leaderboard/{id}: data.entries
LeaderboardEntries(courseId) == << [course |-> courseId, rank |-> 1] >>

\* this.map.getCenter()
MapCenters == {[lat |-> 0, lng |-> 0]}

\* names typed into a pair's name field
TypedNames == {"", "A"}

(***************************************************************************)
(* Handlers of the course editing state machine.                           *)
(***************************************************************************)
Call(op, arg, calls) == [op |-> op, arg |-> arg, calls |-> calls]

Init ==
    /\ timeGates = << >>
    /\ pairCheckpoints = EmptyMap
    /\ pairNames = EmptyMap
    /\ bufferMeters = DefaultBufferMeters
    /\ isCreatingCourse = FALSE
    /\ selectedCourseId = Null
    /\ selectedCourse = Null
    /\ leaderboard = << >>
    /\ gateMarkers = << >>
    /\ checkpointMarkers = << >>
    /\ tracks = << >>
    /\ selectedTrackIds = << >>
    /\ trackLayers = << >>
    /\ runs = << >>
    /\ loadedCount = 0
    /\ issued = EmptyMap
    /\ courseFetches = << >>
    /\ lbFetches = << >>
    /\ mounted = FALSE
    /\ activePanel = NoPanel
    /\ refreshingCourses = FALSE
    /\ listFetches = << >>
    /\ courses = << >>
    /\ coursesGrid = << >>
    /\ newCourse = EmptyForm
    /\ saveFetches = << >>
    /\ lastCall = Call("createState", 0, << >>)

\* fetchLeaderboard() up to its await: with no selected course it clears the
\* leaderboard and returns, otherwise it issues GET /leaderboard/{id}
FetchLeaderboardStart(courseId, thenRecalc) ==
    IF courseId = Null
    THEN /\ leaderboard' = << >>
         /\ UNCHANGED lbFetches
    ELSE /\ lbFetches' = Append(lbFetches, [courseId |-> courseId, thenRecalc |-> thenRecalc])
         /\ UNCHANGED leaderboard

\* this.timeGates = []: the gates held are discarded
DiscardedGatesBug(gates) == gates
DiscardedGates(gates) == << >>

StartNewCourse ==
    /\ selectedCourseId' = Null
    /\ selectedCourse' = Null
    /\ timeGates' = DiscardedGates(timeGates)
    /\ pairCheckpoints' = EmptyMap
    /\ pairNames' = EmptyMap
    /\ leaderboard' = << >>
    /\ bufferMeters' = DefaultBufferMeters
    /\ isCreatingCourse' = TRUE
    /\ RedrawGates(timeGates', EmptyMap, EmptyMap)
    /\ UNCHANGED uiVars
    /\ lastCall' = Call("startNewCourse", 0, <<"redrawGates">>)
    /\ UNCHANGED <<trackVars, runVars, netVars>>

DeselectCourse ==
    /\ selectedCourseId' = Null
    /\ selectedCourse' = Null
    /\ isCreatingCourse' = FALSE
    /\ timeGates' = DiscardedGates(timeGates)
    /\ pairCheckpoints' = EmptyMap
    /\ pairNames' = EmptyMap
    /\ leaderboard' = << >>
    /\ bufferMeters' = DefaultBufferMeters
    /\ RedrawGates(timeGates', EmptyMap, EmptyMap)
    /\ UNCHANGED uiVars
    /\ lastCall' = Call("deselectCourse", 0, <<"redrawGates">>)
    /\ UNCHANGED <<trackVars, runVars, netVars>>

\* the two gates addGatePair pushes
NewGate(pairId, type, lat, lon) ==
    [pairId |-> pairId, name |-> DefaultName(pairId), type |-> type,
     lat |-> lat, lon |-> lon, confirmed |-> FALSE, editing |-> TRUE]

\* an addGatePair that pushes the start gate only
AddGatePairGatesBug(gates, c) ==
    gates \o << NewGate(NextPairIdOf(gates), "start", c.lat + Offset, c.lng + Offset) >>
AddGatePairGates(gates, c) ==
    LET id == NextPairIdOf(gates)
    IN  gates \o << NewGate(id, "start", c.lat + Offset, c.lng + Offset),
                    NewGate(id, "end", c.lat - Offset, c.lng - Offset) >>

AddGatePair(c) ==
    /\ Cardinality(UsedPairIds(timeGates)) < MaxPairs
    /\ timeGates' = AddGatePairGates(timeGates, c)
    /\ RedrawGates(timeGates', pairCheckpoints, pairNames)
    /\ UNCHANGED uiVars
    /\ lastCall' = Call("addGatePair", nextPairId, <<"nextPairId", "redrawGates">>)
    /\ UNCHANGED <<pairCheckpoints, pairNames, courseVars, leaderboard, trackVars,
                   runVars, netVars>>

\* g.editing = (g.pairId === pairId);
\* if (g.pairId !== pairId && !g.confirmed) g.confirmed = false
StartEditingGatesBug(gates, pairId) ==
    [i \in 1..Len(gates) |->
        IF gates[i].pairId = pairId THEN [gates[i] EXCEPT !.editing = TRUE] ELSE gates[i]]
StartEditingGates(gates, pairId) ==
    [i \in 1..Len(gates) |->
        [gates[i] EXCEPT !.editing = (gates[i].pairId = pairId),
                         !.confirmed = IF gates[i].pairId # pairId /\ ~gates[i].confirmed
                                       THEN FALSE ELSE @]]

StartEditing(pairId) ==
    /\ timeGates' = StartEditingGates(timeGates, pairId)
    /\ RedrawGates(timeGates', pairCheckpoints, pairNames)
    /\ UNCHANGED uiVars
    /\ lastCall' = Call("startEditing", pairId, <<"redrawGates">>)
    /\ UNCHANGED <<pairCheckpoints, pairNames, courseVars, leaderboard, trackVars,
                   runVars, netVars>>

UpdatePairName(pairId, newName) ==
    /\ pairNames' = MapSet(pairNames, pairId, newName)
    /\ UNCHANGED uiVars
    /\ lastCall' = Call("updatePairName", pairId, << >>)
    /\ UNCHANGED <<timeGates, pairCheckpoints, gateMarkers, checkpointMarkers, courseVars,
                   leaderboard, trackVars, runVars, netVars>>

\* pair?.name || `Gate Pair ${pairId}`
ConfirmedName(pairs, pairId) ==
    LET pair == FindPair(pairs, pairId)
    IN  IF pair = << >> THEN DefaultName(pairId)
        ELSE OrName(pair[1].name, DefaultName(pairId))

\* a confirm that leaves the pair in edit mode
SaveAndConfirmGatesBug(gates, pairId, newName) ==
    [i \in 1..Len(gates) |->
        IF gates[i].pairId # pairId THEN gates[i]
        ELSE [gates[i] EXCEPT !.name = newName, !.confirmed = TRUE]]
SaveAndConfirmGates(gates, pairId, newName) ==
    [i \in 1..Len(gates) |->
        IF gates[i].pairId # pairId THEN gates[i]
        ELSE [gates[i] EXCEPT !.name = newName, !.confirmed = TRUE, !.editing = FALSE]]

SaveAndConfirmGate(pairId) ==
    LET newName == ConfirmedName(gatePairs, pairId) IN
    /\ Len(runs) < MaxRuns
    /\ Len(SelectSeq(lbFetches, LAMBDA f : ~f.thenRecalc)) < MaxFetches
    /\ pairNames' = MapSet(pairNames, pairId, newName)
    /\ timeGates' = SaveAndConfirmGates(timeGates, pairId, newName)
    /\ RedrawGates(timeGates', pairCheckpoints, pairNames')
    /\ Recalc(timeGates', pairCheckpoints, pairNames', bufferMeters)
    /\ FetchLeaderboardStart(selectedCourseId, FALSE)
    /\ UNCHANGED uiVars
    /\ lastCall' = Call("saveAndConfirmGate", pairId,
                        <<"redrawGates", "recalcAllSegmentTimes", "fetchLeaderboard">>)
    /\ UNCHANGED <<pairCheckpoints, courseVars, overlayVars, courseFetches>>

RemoveGatePairGatesBug(gates, pairId) ==
    SelectSeq(gates, LAMBDA g : g.pairId # pairId \/ g.confirmed)
RemoveGatePairGates(gates, pairId) == SelectSeq(gates, LAMBDA g : g.pairId # pairId)

RemoveGatePair(pairId) ==
    /\ Len(runs) < MaxRuns
    /\ timeGates' = RemoveGatePairGates(timeGates, pairId)
    /\ pairCheckpoints' = MapDelete(pairCheckpoints, pairId)
    /\ pairNames' = MapDelete(pairNames, pairId)
    /\ RedrawGates(timeGates', pairCheckpoints', pairNames')
    /\ Recalc(timeGates', pairCheckpoints', pairNames', bufferMeters)
    /\ UNCHANGED uiVars
    /\ lastCall' = Call("removeGatePair", pairId, <<"redrawGates", "recalcAllSegmentTimes">>)
    /\ UNCHANGED <<courseVars, leaderboard, overlayVars, netVars>>

ClearAllGates ==
    /\ Len(runs) < MaxRuns
    /\ timeGates' = << >>
    /\ pairCheckpoints' = EmptyMap
    /\ pairNames' = EmptyMap
    /\ RedrawGates(<< >>, EmptyMap, EmptyMap)
    /\ Recalc(<< >>, EmptyMap, EmptyMap, bufferMeters)
    /\ UNCHANGED uiVars
    /\ lastCall' = Call("clearAllGates", 0, <<"redrawGates", "recalcAllSegmentTimes">>)
    /\ UNCHANGED <<courseVars, leaderboard, overlayVars, netVars>>

\* this.pairCheckpoints.get(pairId).push(newCheckpoint)
AddCheckpointMapBug(cps, pairId, cp) ==
    MapSet(cps, pairId, <<cp>> \o CheckpointsGet(cps, pairId))
AddCheckpointMap(cps, pairId, cp) ==
    MapSet(cps, pairId, Append(CheckpointsGet(cps, pairId), cp))

AddCheckpoint(pairId) ==
    LET pair == FindPair(gatePairs, pairId) IN
    /\ Len(CheckpointsGet(pairCheckpoints, pairId)) < MaxCheckpoints
    /\ IF pair # << >>
       THEN /\ pairCheckpoints' =
                AddCheckpointMap(pairCheckpoints, pairId,
                                 [lat |-> pair[1].start[1].lat, lon |-> pair[1].start[1].lon])
            /\ RedrawGates(timeGates, pairCheckpoints', pairNames)
            /\ UNCHANGED uiVars
            /\ lastCall' = Call("addCheckpoint", pairId, <<"redrawGates">>)
       ELSE /\ UNCHANGED <<pairCheckpoints, gateMarkers, checkpointMarkers>>
            /\ UNCHANGED uiVars
            /\ lastCall' = Call("addCheckpoint", pairId, << >>)
    /\ UNCHANGED <<timeGates, pairNames, courseVars, leaderboard, trackVars, runVars, netVars>>

RemoveLastCheckpoint(pairId) ==
    /\ IF MapHas(pairCheckpoints, pairId) /\ Len(pairCheckpoints[pairId]) > 0
       THEN /\ pairCheckpoints' =
                MapSet(pairCheckpoints, pairId,
                       SubSeq(pairCheckpoints[pairId], 1, Len(pairCheckpoints[pairId]) - 1))
            /\ RedrawGates(timeGates, pairCheckpoints', pairNames)
            /\ UNCHANGED uiVars
            /\ lastCall' = Call("removeLastCheckpoint", pairId, <<"redrawGates">>)
       ELSE /\ UNCHANGED <<pairCheckpoints, gateMarkers, checkpointMarkers>>
            /\ UNCHANGED uiVars
            /\ lastCall' = Call("removeLastCheckpoint", pairId, << >>)
    /\ UNCHANGED <<timeGates, pairNames, courseVars, leaderboard, trackVars, runVars, netVars>>

(***************************************************************************)
(* Loading a persisted course.                                             *)
(***************************************************************************)
\* loadCourseCard(id) / loadCourseFromProfile(id): select the course and call
\* loadSelectedCourse(), which issues GET /courses/{id}
LoadCourse(id) ==
    /\ Len(courseFetches) + Len(SelectSeq(lbFetches, LAMBDA f : f.thenRecalc)) < MaxFetches
    /\ selectedCourseId' = id
    /\ courseFetches' = Append(courseFetches, id)
    /\ activePanel' = NoPanel
    /\ UNCHANGED <<mounted, listVars, newCourse, saveFetches>>
    /\ lastCall' = Call("loadCourseCard", id, <<"closePanels", "loadSelectedCourse">>)
    /\ UNCHANGED <<gateVars, bufferMeters, isCreatingCourse, selectedCourse, leaderboard,
                   trackVars, runVars, lbFetches>>

\* the two gates loadSelectedCourse pushes for one course gate g
CourseGateFlags == [confirmed |-> TRUE, editing |-> FALSE]

\* a load that leaves the end gate of each pair in edit mode
LoadedGatesBug(g) ==
    << [pairId |-> g.pairId, name |-> g.name, type |-> "start",
        lat |-> g.start.lat, lon |-> g.start.lon, confirmed |-> TRUE, editing |-> FALSE],
       [pairId |-> g.pairId, name |-> g.name, type |-> "end",
        lat |-> g.end.lat, lon |-> g.end.lon, confirmed |-> TRUE, editing |-> TRUE] >>
LoadedGates(g) ==
    << [pairId |-> g.pairId, name |-> g.name, type |-> "start",
        lat |-> g.start.lat, lon |-> g.start.lon,
        confirmed |-> CourseGateFlags.confirmed, editing |-> CourseGateFlags.editing],
       [pairId |-> g.pairId, name |-> g.name, type |-> "end",
        lat |-> g.end.lat, lon |-> g.end.lon,
        confirmed |-> CourseGateFlags.confirmed, editing |-> CourseGateFlags.editing] >>

\* the loop `for (const g of c.gates)` from index i, on the model so far
RECURSIVE LoadCourseGates(_, _, _)
LoadCourseGates(courseGates, i, model) ==
    IF i > Len(courseGates) THEN model
    ELSE LET g == courseGates[i] IN
         LoadCourseGates(courseGates, i + 1,
            [timeGates |-> model.timeGates \o LoadedGates(g),
             pairCheckpoints |->
                MapSet(model.pairCheckpoints, g.pairId,
                       [j \in 1..Len(g.checkpoints) |->
                           [lat |-> g.checkpoints[j].lat, lon |-> g.checkpoints[j].lon]]),
             pairNames |-> MapSet(model.pairNames, g.pairId, g.name)])

\* this.timeGates = []; clear(); clear(); then the loop
LoadedModelBug(old, c) == LoadCourseGates(c.gates, 1, old)
LoadedModel(old, c) ==
    LoadCourseGates(c.gates, 1,
        [timeGates |-> << >>, pairCheckpoints |-> EmptyMap, pairNames |-> EmptyMap])

\* the model when apiGet rejects: the await is the first statement of the try
\* block, so the catch is reached with nothing written
ModelAfterFailedFetchBug(old) ==
    [timeGates |-> << >>, pairCheckpoints |-> EmptyMap, pairNames |-> EmptyMap]
ModelAfterFailedFetch(old) == old

\* loadSelectedCourse() after `await this.apiGet(...)`.  On success the model is
\* replaced and redrawn, then fetchLeaderboard() is awaited; with no selected
\* course that call returns at once and recalcAllSegmentTimes() follows.
CourseResponse(k, ok) ==
    LET id == courseFetches[k]
        c == ServerCourse(id)
        m == LoadedModel([timeGates |-> timeGates, pairCheckpoints |-> pairCheckpoints,
                          pairNames |-> pairNames], c)
    IN
    /\ courseFetches' = RemoveAt(courseFetches, k)
    /\ IF ok
       THEN /\ selectedCourse' = c.id
            /\ isCreatingCourse' = FALSE
            /\ timeGates' = m.timeGates
            /\ pairCheckpoints' = m.pairCheckpoints
            /\ pairNames' = m.pairNames
            /\ bufferMeters' = c.buffer_m
            /\ RedrawGates(m.timeGates, m.pairCheckpoints, m.pairNames)
            /\ FetchLeaderboardStart(selectedCourseId, TRUE)
            /\ IF selectedCourseId = Null
               THEN /\ Recalc(m.timeGates, m.pairCheckpoints, m.pairNames, c.buffer_m)
                    /\ UNCHANGED uiVars
                    /\ lastCall' = Call("loadSelectedCourse", id,
                           <<"redrawGates", "fetchLeaderboard", "recalcAllSegmentTimes">>)
               ELSE /\ UNCHANGED <<tracks, runVars>>
                    /\ UNCHANGED uiVars
                    /\ lastCall' = Call("loadSelectedCourse", id,
                                        <<"redrawGates", "fetchLeaderboard">>)
            /\ UNCHANGED <<selectedCourseId, overlayVars>>
       ELSE /\ LET f == ModelAfterFailedFetch(
                             [timeGates |-> timeGates, pairCheckpoints |-> pairCheckpoints,
                              pairNames |-> pairNames])
               IN  /\ timeGates' = f.timeGates
                   /\ pairCheckpoints' = f.pairCheckpoints
                   /\ pairNames' = f.pairNames
            /\ UNCHANGED uiVars
            /\ lastCall' = Call("loadSelectedCourse", id, <<"alert">>)
            /\ UNCHANGED <<gateMarkers, checkpointMarkers, courseVars, leaderboard,
                           trackVars, runVars, lbFetches>>

\* fetchLeaderboard() after its await; a caller that awaited it
\* (loadSelectedCourse) goes on to recalcAllSegmentTimes()
LeaderboardResponse(k, ok) ==
    LET f == lbFetches[k] IN
    /\ lbFetches' = RemoveAt(lbFetches, k)
    /\ leaderboard' = IF ok THEN LeaderboardEntries(f.courseId) ELSE << >>
    /\ IF f.thenRecalc
       THEN /\ Recalc(timeGates, pairCheckpoints, pairNames, bufferMeters)
            /\ UNCHANGED uiVars
            /\ lastCall' = Call("fetchLeaderboard", f.courseId, <<"recalcAllSegmentTimes">>)
       ELSE /\ UNCHANGED <<tracks, runVars>>
            /\ UNCHANGED uiVars
            /\ lastCall' = Call("fetchLeaderboard", f.courseId, << >>)
    /\ UNCHANGED <<gateVars, courseVars, overlayVars, courseFetches>>

(***************************************************************************)
(* Track Overlay Manager.                                                  *)
(***************************************************************************)
\* the points the server returns for the n-th track loaded: none (a failed
\* parse) or one point of its own
PointChoices(n) == {<< >>, << [lat |-> n, lon |-> n, ele |-> Null, time |-> Null] >>}

ColorIndex(base, i) == (base + i) % PaletteSize

\* redrawTracks(): one polyline and two end markers per selected track with points
IsDrawnBug(t, selected) == Len(t.points) > 0
IsDrawn(t, selected) ==
    /\ \E k \in 1..Len(selected) : selected[k] = t.id
    /\ Len(t.points) > 0

RECURSIVE TrackLayersFrom(_, _, _)
TrackLayersFrom(trs, selected, i) ==
    IF i > Len(trs) THEN << >>
    ELSE (IF IsDrawn(trs[i], selected)
          THEN << [kind |-> "polyline", track |-> trs[i].id],
                  [kind |-> "start", track |-> trs[i].id],
                  [kind |-> "end", track |-> trs[i].id] >>
          ELSE << >>) \o TrackLayersFrom(trs, selected, i + 1)

TrackLayersOf(trs, selected) == TrackLayersFrom(trs, selected, 1)

\* this.tracks.push(t): the push reaches every loop still iterating this.tracks
PushToRuns(rs, t) ==
    [k \in 1..Len(rs) |->
        IF rs[k].live
        THEN [rs[k] EXCEPT !.arr = Append(@, [id |-> t.id, points |-> t.points])]
        ELSE rs[k]]

\* this.tracks = <a new array>: the loops go on iterating the old one
DetachRuns(rs) == [k \in 1..Len(rs) |-> [rs[k] EXCEPT !.live = FALSE]]

\* this.gatePairs.some(p => p.confirmed)
SomePairConfirmed == \E k \in 1..Len(gatePairs) : gatePairs[k].confirmed

\* A track arrives: processFile() after POST /upload-gpx answered with one
\* track, or importStravaActivity() after its points arrived.
TrackLoaded(op, points) ==
    LET t == [id |-> loadedCount + 1, points |-> points,
              color |-> ColorIndex(Len(tracks), 0), segmentTimes |-> NoSegmentTimes]
        trs == Append(tracks, t)
        rs == PushToRuns(runs, t)
        r == RecalcStart(trs, gatePairsToApiPayload, bufferMeters)
    IN
    /\ loadedCount < MaxTracks
    /\ Len(runs) < MaxRuns
    /\ loadedCount' = loadedCount + 1
    /\ selectedTrackIds' = Append(selectedTrackIds, t.id)
    /\ trackLayers' = TrackLayersOf(trs, selectedTrackIds')
    /\ IF SomePairConfirmed
       THEN /\ tracks' = r.tracks
            /\ runs' = Demote(rs, r.run) \o r.run
            /\ issued' = IssuedAfter(issued, r.cleared, r.run)
            /\ UNCHANGED uiVars
            /\ lastCall' = Call(op, t.id, <<"redrawTracks", "recalcAllSegmentTimes">>)
       ELSE /\ tracks' = trs
            /\ runs' = rs
            /\ UNCHANGED issued
            /\ UNCHANGED uiVars
            /\ lastCall' = Call(op, t.id, <<"redrawTracks">>)
    /\ UNCHANGED <<gateVars, courseVars, leaderboard, netVars>>

ProcessFile == \E points \in PointChoices(loadedCount + 1) : TrackLoaded("processFile", points)

ImportStravaActivity ==
    \E points \in PointChoices(loadedCount + 1) :
        /\ Len(points) > 0
        /\ TrackLoaded("importStravaActivity", points)

(***************************************************************************)
(* recalcAllSegmentTimes() after `await this.apiPost("/segment-times")`:   *)
(* the response (ok) or the failure (~ok) of the request of run k.         *)
(***************************************************************************)
\* what the try / catch stores on the track
ResponseSegments(run, ok) ==
    IF ok THEN Segments(RequestOf(run).points, run.gates, run.buffer_m) ELSE << >>

\* tracks after the write, and the loop's continuation
AfterResponseBug(trs, run, ok) ==
    IF ok THEN Advance(SetSegmentTimes(trs, RequestOf(run).track, ResponseSegments(run, ok)),
                       [run EXCEPT !.idx = @ + 1, !.latest = TRUE])
    ELSE [tracks |-> ClearAllSegmentTimes(trs), run |-> << >>]
AfterResponse(trs, run, ok) ==
    Advance(SetSegmentTimes(trs, RequestOf(run).track, ResponseSegments(run, ok)),
            [run EXCEPT !.idx = @ + 1, !.latest = TRUE])

RecalcResponse(k, ok) ==
    LET run == runs[k]
        a == AfterResponse(tracks, run, ok)
        done == IF run.latest
                THEN [issued EXCEPT ![RequestOf(run).track].status =
                                        IF ok THEN "ok" ELSE "failed"]
                ELSE issued
    IN
    /\ tracks' = a.tracks
    /\ runs' = IF a.run = << >> THEN RemoveAt(runs, k)
               ELSE [Demote(runs, a.run) EXCEPT ![k] = a.run[1]]
    /\ issued' = IssuedAfter(done, FALSE, a.run)
    /\ UNCHANGED uiVars
    /\ lastCall' = Call(IF ok THEN "segmentTimesResponse" ELSE "segmentTimesFailure",
                        RequestOf(run).track, << >>)
    /\ UNCHANGED <<gateVars, courseVars, leaderboard, overlayVars, netVars>>

(***************************************************************************)
(* Selecting and removing tracks.                                          *)
(***************************************************************************)
\* indexOf(x): the first position of x in s, 0 when absent
IndexOf(s, x) ==
    IF \E i \in 1..Len(s) : s[i] = x
    THEN CHOOSE i \in 1..Len(s) : s[i] = x /\ \A j \in 1..(i - 1) : s[j] # x
    ELSE 0

\* i >= 0 ? splice(i, 1) : push(trackId)
ToggledSelectionBug(selected, trackId) == Append(selected, trackId)
ToggledSelection(selected, trackId) ==
    IF IndexOf(selected, trackId) > 0 THEN RemoveAt(selected, IndexOf(selected, trackId))
    ELSE Append(selected, trackId)

\* if (i >= 0) this.selectedTrackIds.splice(i, 1)
Deselected(selected, trackId) ==
    IF IndexOf(selected, trackId) > 0 THEN RemoveAt(selected, IndexOf(selected, trackId))
    ELSE selected

\* this.tracks.filter(t => t.id !== trackId)
TracksWithout(trs, trackId) == SelectSeq(trs, LAMBDA t : t.id # trackId)

ToggleTrack(trackId) ==
    /\ selectedTrackIds' = ToggledSelection(selectedTrackIds, trackId)
    /\ trackLayers' = TrackLayersOf(tracks, selectedTrackIds')
    /\ lastCall' = Call("toggleTrack", trackId, <<"redrawTracks">>)
    /\ UNCHANGED <<gateVars, courseVars, leaderboard, tracks, loadedCount, runVars,
                   netVars, uiVars>>

\* removeTrack(trackId): this.tracks becomes a new array, so the loops of the
\* runs in flight go on over the old one
RemoveTrack(trackId) ==
    /\ tracks' = TracksWithout(tracks, trackId)
    /\ selectedTrackIds' = Deselected(selectedTrackIds, trackId)
    /\ trackLayers' = TrackLayersOf(tracks', selectedTrackIds')
    /\ runs' = DetachRuns(runs)
    /\ lastCall' = Call("removeTrack", trackId, <<"redrawTracks">>)
    /\ UNCHANGED <<gateVars, courseVars, leaderboard, loadedCount, issued, netVars, uiVars>>

ClearTracks ==
    /\ tracks' = << >>
    /\ trackLayers' = << >>
    /\ runs' = DetachRuns(runs)
    /\ lastCall' = Call("clearTracks", 0, <<"clearLayerArray">>)
    /\ UNCHANGED <<gateVars, courseVars, leaderboard, selectedTrackIds, loadedCount,
                   issued, netVars, uiVars>>

(***************************************************************************)
(* The dragend handlers redrawGates() installs on its markers.  A marker   *)
(* keeps the gate (or checkpoint) object it was drawn for; every handler   *)
(* that replaces those objects redraws in the same step, so the object is  *)
(* the one of the same position in the model.                              *)
(***************************************************************************)
\* e.target.getLatLng(): where a marker may be dropped
DragTargets == {[lat |-> 5, lng |-> 6]}

\* gate.lat = ll.lat; gate.lon = ll.lng
DraggedGatesBug(gates, i, ll) ==
    [j \in 1..Len(gates) |->
        IF gates[j].pairId = gates[i].pairId
        THEN [gates[j] EXCEPT !.lat = ll.lat, !.lon = ll.lng] ELSE gates[j]]
DraggedGates(gates, i, ll) == [gates EXCEPT ![i].lat = ll.lat, ![i].lon = ll.lng]

GateDragEnd(k, ll) ==
    LET i == gateMarkers[k].gate IN
    /\ gateMarkers[k].draggable
    /\ timeGates' = DraggedGates(timeGates, i, ll)
    /\ gateMarkers' = [gateMarkers EXCEPT ![k].lat = ll.lat, ![k].lon = ll.lng]
    /\ lastCall' = Call("gateDragEnd", k, << >>)
    /\ UNCHANGED <<pairCheckpoints, pairNames, checkpointMarkers, courseVars, leaderboard,
                   trackVars, runVars, netVars, uiVars>>

\* cp.lat = ll.lat; cp.lon = ll.lng
CheckpointDragEnd(k, ll) ==
    LET m == checkpointMarkers[k] IN
    /\ m.draggable
    /\ pairCheckpoints' =
          [pairCheckpoints EXCEPT ![m.pairId][m.idx] = [lat |-> ll.lat, lon |-> ll.lng]]
    /\ checkpointMarkers' = [checkpointMarkers EXCEPT ![k].lat = ll.lat, ![k].lon = ll.lng]
    /\ lastCall' = Call("checkpointDragEnd", k, << >>)
    /\ UNCHANGED <<timeGates, pairNames, gateMarkers, courseVars, leaderboard,
                   trackVars, runVars, netVars, uiVars>>

(***************************************************************************)
(* Panels and the course list: setActivePanel, openCoursesModal,           *)
(* refreshCoursesGrid, loadCourses and the mounted hook.  A list fetch is  *)
(* [then, created]: then says what its caller does once loadCourses()      *)
(* returns ("none": nothing, "refresh": refreshCoursesGrid resets its      *)
(* guard, "save": saveAdvancedCourse selects and loads course created).    *)
(***************************************************************************)
Panels == {"courses", "profile"}

\* GET /courses_summary: the lists the server may answer with
ServerLists ==
    { << [id |-> 1, created_at |-> 1] >>,
      << [id |-> 1, created_at |-> 1], [id |-> 2, created_at |-> 2] >> }

\* .slice().sort((a, b) => bTime - aTime): a stable sort, newest first
RECURSIVE InsertByTime(_, _)
InsertByTime(sorted, c) ==
    IF sorted = << >> THEN <<c>>
    ELSE IF Head(sorted).created_at >= c.created_at
         THEN <<Head(sorted)>> \o InsertByTime(Tail(sorted), c)
         ELSE <<c>> \o sorted

RECURSIVE SortGridFrom(_, _, _)
SortGridFrom(list, i, sorted) ==
    IF i > Len(list) THEN sorted
    ELSE SortGridFrom(list, i + 1, InsertByTime(sorted, list[i]))

SortGrid(list) == SortGridFrom(list, 1, << >>)

ListFetch(then, created) == [then |-> then, created |-> created]

\* loadCourses() up to its await, on the fetches fs in flight
LoadCoursesStart(fs, then, created) == Append(fs, ListFetch(then, created))

\* refreshCoursesGrid(): a no-op while an earlier invocation is in flight
RefreshCoursesGridGuardBug == FALSE
RefreshCoursesGridGuard == refreshingCourses

RefreshCoursesGridCall ==
    IF RefreshCoursesGridGuard
    THEN UNCHANGED listVars
    ELSE /\ refreshingCourses' = TRUE
         /\ listFetches' = LoadCoursesStart(listFetches, "refresh", Null)
         /\ UNCHANGED <<courses, coursesGrid>>

RefreshCalls ==
    IF RefreshCoursesGridGuard THEN <<"refreshCoursesGrid">>
    ELSE <<"refreshCoursesGrid", "loadCourses">>

\* the mounted hook: initMap(), loadCourses(), ...; no user is restored
MountedHook ==
    /\ ~mounted
    /\ mounted' = TRUE
    /\ listFetches' = LoadCoursesStart(listFetches, "none", Null)
    /\ lastCall' = Call("mountedHook", 0, <<"loadCourses">>)
    /\ UNCHANGED <<gateVars, courseVars, leaderboard, trackVars, runVars, netVars,
                   activePanel, refreshingCourses, courses, coursesGrid, newCourse,
                   saveFetches>>

\* setActivePanel(panel); the profile panel fetches nothing while no user is
\* logged in
SetActivePanel(panel) ==
    /\ Len(listFetches) < MaxListFetches
    /\ IF activePanel = panel
       THEN /\ UNCHANGED <<activePanel, listVars>>
            /\ lastCall' = Call("setActivePanel", panel, <<"invalidateMap">>)
       ELSE /\ activePanel' = panel
            /\ IF panel = "courses"
               THEN /\ RefreshCoursesGridCall
                    /\ lastCall' = Call("setActivePanel", panel, RefreshCalls)
               ELSE /\ UNCHANGED listVars
                    /\ lastCall' = Call("setActivePanel", panel, << >>)
    /\ UNCHANGED <<gateVars, courseVars, leaderboard, trackVars, runVars, netVars,
                   mounted, newCourse, saveFetches>>

OpenCoursesModal ==
    /\ Len(listFetches) < MaxListFetches
    /\ RefreshCoursesGridCall
    /\ activePanel' = "courses"
    /\ lastCall' = Call("openCoursesModal", 0,
                        IF activePanel = "courses" THEN RefreshCalls
                        ELSE <<"setActivePanel">> \o RefreshCalls)
    /\ UNCHANGED <<gateVars, courseVars, leaderboard, trackVars, runVars, netVars,
                   mounted, newCourse, saveFetches>>

\* what loadCourses() stores: the list on success, [] in its catch
LoadedCourses(ok, list) == IF ok THEN list ELSE << >>

\* loadCourses() after `await this.apiGet("/courses_summary")`, and then the
\* rest of its caller
ListResponse(k, ok, list) ==
    LET f == listFetches[k] IN
    /\ listFetches' = RemoveAt(listFetches, k)
    /\ courses' = LoadedCourses(ok, list)
    /\ coursesGrid' = SortGrid(LoadedCourses(ok, list))
    /\ refreshingCourses' = IF f.then = "refresh" THEN FALSE ELSE refreshingCourses
    /\ IF f.then = "save"
       THEN /\ Len(courseFetches) + Len(SelectSeq(lbFetches, LAMBDA g : g.thenRecalc))
                 < MaxFetches
            /\ selectedCourseId' = f.created
            /\ courseFetches' = Append(courseFetches, f.created)
            /\ lastCall' = Call("loadCourses", f.created, <<"loadSelectedCourse">>)
       ELSE /\ UNCHANGED <<selectedCourseId, courseFetches>>
            /\ lastCall' = Call("loadCourses", IF ok THEN 1 ELSE 0, << >>)
    /\ UNCHANGED <<gateVars, bufferMeters, isCreatingCourse, selectedCourse, leaderboard,
                   trackVars, runVars, lbFetches, mounted, activePanel, newCourse,
                   saveFetches>>

(***************************************************************************)
(* Saving a course: saveAdvancedCourse.  A save in flight is               *)
(* [stage, created, request]: it awaits POST /courses ("create") or        *)
(* POST /courses/{created}/image ("image").                                *)
(***************************************************************************)
CourseNames == {"", "N"}

\* the name field of the new-course form (v-model on newCourse.name)
SetCourseName(name) ==
    /\ name # newCourse.name
    /\ newCourse' = [newCourse EXCEPT !.name = name]
    /\ lastCall' = Call("newCourse.name", 0, << >>)
    /\ UNCHANGED <<gateVars, courseVars, leaderboard, trackVars, runVars, netVars,
                   mounted, activePanel, listVars, saveFetches>>

\* onCourseImageSelect(e): a file was chosen, or the choice was emptied
OnCourseImageSelect(file) ==
    /\ file # newCourse.imageFile
    /\ newCourse' = [newCourse EXCEPT !.imageFile = file]
    /\ lastCall' = Call("onCourseImageSelect", 0, << >>)
    /\ UNCHANGED <<gateVars, courseVars, leaderboard, trackVars, runVars, netVars,
                   mounted, activePanel, listVars, saveFetches>>

\* the two validations of saveAdvancedCourse
SaveBlockedBug(gates, form) == Len(gates) = 0
SaveBlocked(gates, form) == Len(gates) = 0 \/ form.name = ""

SaveAdvancedCourse ==
    LET gates == gatePairsToApiPayload IN
    /\ Len(saveFetches) < MaxFetches
    /\ IF SaveBlocked(gates, newCourse)
       THEN /\ UNCHANGED saveFetches
            /\ lastCall' = Call("saveAdvancedCourse", 0, <<"alert">>)
       ELSE /\ saveFetches' = Append(saveFetches,
                 [stage |-> "create", created |-> Null,
                  request |-> [name |-> newCourse.name, gates |-> gates,
                               buffer_m |-> BufferOrDefault(bufferMeters)]])
            /\ lastCall' = Call("saveAdvancedCourse", 0, <<"apiPost">>)
    /\ UNCHANGED <<gateVars, courseVars, leaderboard, trackVars, runVars, netVars,
                   mounted, activePanel, listVars, newCourse>>

\* "Reset & load": the form is reset, the panels are closed and loadCourses()
\* is awaited for the course created
SaveFinish(created) ==
    /\ newCourse' = EmptyForm
    /\ activePanel' = NoPanel
    /\ listFetches' = LoadCoursesStart(listFetches, "save", created)
    /\ UNCHANGED <<refreshingCourses, courses, coursesGrid>>

\* saveAdvancedCourse() after an await: the answer to POST /courses (created
\* is the id the server gave) or to the image upload; thrown is a rejected
\* fetch, which ends in the catch
SaveResponse(k, ok, thrown, created) ==
    LET f == saveFetches[k] IN
    /\ Len(listFetches) < MaxListFetches
    /\ IF f.stage = "create"
       THEN IF ~ok \/ thrown
            THEN /\ saveFetches' = RemoveAt(saveFetches, k)
                 /\ UNCHANGED <<activePanel, listVars, newCourse>>
                 /\ lastCall' = Call("saveAdvancedCourse", 0, <<"alert">>)
            ELSE IF newCourse.imageFile
                 THEN /\ saveFetches' =
                            [saveFetches EXCEPT ![k] = [@ EXCEPT !.stage = "image",
                                                                 !.created = created]]
                      /\ UNCHANGED <<activePanel, listVars, newCourse>>
                      /\ lastCall' = Call("saveAdvancedCourse", created, <<"fetch">>)
                 ELSE /\ saveFetches' = RemoveAt(saveFetches, k)
                      /\ SaveFinish(created)
                      /\ lastCall' = Call("saveAdvancedCourse", created,
                                          <<"closePanels", "loadCourses">>)
       ELSE /\ created = f.created
            /\ saveFetches' = RemoveAt(saveFetches, k)
            /\ IF thrown
               THEN /\ UNCHANGED <<activePanel, listVars, newCourse>>
                    /\ lastCall' = Call("saveAdvancedCourse", 0, <<"alert">>)
               ELSE /\ SaveFinish(f.created)
                    /\ lastCall' = Call("saveAdvancedCourse", f.created,
                                        <<"closePanels", "loadCourses">>)
    /\ UNCHANGED <<gateVars, courseVars, leaderboard, trackVars, runVars, netVars, mounted>>

(***************************************************************************)
(* Specifications.  Next is the whole event loop; the other next-state     *)
(* relations are its components, each checked on its own with the events   *)
(* that reach the state it is about.                                       *)
(***************************************************************************)
PairIdsInUse == UsedPairIds(timeGates)

\* the tracks a handler of the track list can name
TrackIds == {tracks[i].id : i \in 1..Len(tracks)}

\* redrawGates() called on its own
RedrawGatesCall ==
    /\ RedrawGates(timeGates, pairCheckpoints, pairNames)
    /\ UNCHANGED uiVars
    /\ lastCall' = Call("redrawGates", 0, << >>)
    /\ UNCHANGED <<timeGates, pairCheckpoints, pairNames, courseVars, leaderboard,
                   trackVars, runVars, netVars>>

Next ==
    \/ StartNewCourse
    \/ DeselectCourse
    \/ \E c \in MapCenters : AddGatePair(c)
    \/ \E p \in PairIdsInUse : StartEditing(p)
    \/ \E p \in PairIdsInUse, n \in TypedNames : UpdatePairName(p, n)
    \/ \E p \in PairIdsInUse : SaveAndConfirmGate(p)
    \/ \E p \in PairIdsInUse : RemoveGatePair(p)
    \/ ClearAllGates
    \/ \E p \in PairIdsInUse : AddCheckpoint(p)
    \/ \E p \in PairIdsInUse : RemoveLastCheckpoint(p)
    \/ \E id \in CourseIds : LoadCourse(id)
    \/ \E k \in 1..Len(courseFetches), ok \in BOOLEAN : CourseResponse(k, ok)
    \/ \E k \in 1..Len(lbFetches), ok \in BOOLEAN : LeaderboardResponse(k, ok)
    \/ ProcessFile
    \/ ImportStravaActivity
    \/ \E k \in 1..Len(runs), ok \in BOOLEAN : RecalcResponse(k, ok)
    \/ \E id \in TrackIds : ToggleTrack(id)
    \/ \E id \in TrackIds : RemoveTrack(id)
    \/ ClearTracks
    \/ \E k \in 1..Len(gateMarkers), ll \in DragTargets : GateDragEnd(k, ll)
    \/ \E k \in 1..Len(checkpointMarkers), ll \in DragTargets : CheckpointDragEnd(k, ll)
    \/ MountedHook
    \/ \E panel \in Panels \cup {NoPanel} : SetActivePanel(panel)
    \/ OpenCoursesModal
    \/ \E k \in 1..Len(listFetches), ok \in BOOLEAN, list \in ServerLists :
          ListResponse(k, ok, list)
    \/ \E name \in CourseNames : SetCourseName(name)
    \/ \E file \in BOOLEAN : OnCourseImageSelect(file)
    \/ SaveAdvancedCourse
    \/ \E k \in 1..Len(saveFetches), ok \in BOOLEAN, thrown \in BOOLEAN,
             created \in CourseIds : SaveResponse(k, ok, thrown, created)

Spec == Init /\ [][Next]_vars

\* Editing flags of pairs: add, edit, confirm, remove, reset.
NextEdit ==
    \/ StartNewCourse
    \/ DeselectCourse
    \/ \E c \in MapCenters : AddGatePair(c)
    \/ \E p \in PairIdsInUse : StartEditing(p)
    \/ \E p \in PairIdsInUse : SaveAndConfirmGate(p)
    \/ \E p \in PairIdsInUse : RemoveGatePair(p)
    \/ ClearAllGates

SpecEdit == Init /\ [][NextEdit]_vars

\* Pairs with their checkpoints and custom names.
NextPairs ==
    \/ \E c \in MapCenters : AddGatePair(c)
    \/ \E p \in PairIdsInUse : StartEditing(p)
    \/ \E p \in PairIdsInUse : SaveAndConfirmGate(p)
    \/ \E p \in PairIdsInUse : RemoveGatePair(p)
    \/ \E p \in PairIdsInUse : AddCheckpoint(p)

SpecPairs == Init /\ [][NextPairs]_vars

\* Loading a persisted course over a model under edit.
NextLoad ==
    \/ \E c \in MapCenters : AddGatePair(c)
    \/ \E p \in PairIdsInUse : AddCheckpoint(p)
    \/ \E id \in CourseIds : LoadCourse(id)
    \/ \E k \in 1..Len(courseFetches), ok \in BOOLEAN : CourseResponse(k, ok)
    \/ \E k \in 1..Len(lbFetches), ok \in BOOLEAN : LeaderboardResponse(k, ok)

SpecLoad == Init /\ [][NextLoad]_vars

\* Overlapping segment-time runs over loaded tracks.
NextOverlap ==
    \/ ProcessFile
    \/ \E c \in MapCenters : AddGatePair(c)
    \/ \E p \in PairIdsInUse : SaveAndConfirmGate(p)
    \/ ClearAllGates
    \/ \E k \in 1..Len(runs), ok \in BOOLEAN : RecalcResponse(k, ok)

SpecOverlap == Init /\ [][NextOverlap]_vars

\* One segment-time run at a time (TimesMaxRuns) over a small course.
TimesMaxRuns == 1
TimesMaxPairs == 1

NextTimes ==
    /\ NextOverlap
    /\ Len(runs') <= TimesMaxRuns
    /\ Cardinality(UsedPairIds(timeGates')) <= TimesMaxPairs

SpecTimes == Init /\ [][NextTimes]_vars

\* Confirming pairs of a new or a loaded course, with a track loaded.
ConfirmBudget == 6     \* tracks loaded + pairs held + requests awaiting an answer

NextConfirm ==
    /\ \/ ProcessFile
       \/ \E c \in MapCenters : AddGatePair(c)
       \/ \E p \in PairIdsInUse : SaveAndConfirmGate(p)
       \/ LoadCourse(2)
       \/ \E k \in 1..Len(courseFetches), ok \in BOOLEAN : CourseResponse(k, ok)
       \/ \E k \in 1..Len(lbFetches), ok \in BOOLEAN : LeaderboardResponse(k, ok)
    /\ loadedCount' + Cardinality(UsedPairIds(timeGates'))
          + Len(courseFetches') + Len(lbFetches') + Len(runs') <= ConfirmBudget

SpecConfirm == Init /\ [][NextConfirm]_vars

\* the number of checkpoints held for the pairs ids
RECURSIVE CheckpointCount(_, _)
CheckpointCount(cps, ids) ==
    IF ids = {} THEN 0
    ELSE LET x == CHOOSE x \in ids : TRUE
         IN  Len(cps[x]) + CheckpointCount(cps, ids \ {x})

\* Every operation that changes gates, checkpoints or tracks.
RenderBudget == 2      \* tracks loaded + pairs and checkpoints held + requests in flight

NextRender ==
    /\ \/ StartNewCourse
       \/ DeselectCourse
       \/ \E c \in MapCenters : AddGatePair(c)
       \/ \E p \in PairIdsInUse : StartEditing(p)
       \/ \E p \in PairIdsInUse : SaveAndConfirmGate(p)
       \/ \E p \in PairIdsInUse : RemoveGatePair(p)
       \/ \E p \in PairIdsInUse : AddCheckpoint(p)
       \/ \E p \in PairIdsInUse : RemoveLastCheckpoint(p)
       \/ LoadCourse(2)
       \/ \E k \in 1..Len(courseFetches) : CourseResponse(k, TRUE)
       \/ ProcessFile
       \/ \E id \in TrackIds : ToggleTrack(id)
       \/ \E id \in TrackIds : RemoveTrack(id)
       \/ ClearTracks
    /\ loadedCount' + Cardinality(UsedPairIds(timeGates'))
          + CheckpointCount(pairCheckpoints', DOMAIN pairCheckpoints')
          + Len(courseFetches') + Len(lbFetches') + Len(runs') <= RenderBudget

SpecRender == Init /\ [][NextRender]_vars

\* the number of gate and checkpoint markers that were drawn at a drop place
MovedCount(gms, cms) ==
    Cardinality({k \in 1..Len(gms) : \E ll \in DragTargets : gms[k].lat = ll.lat})
    + Cardinality({k \in 1..Len(cms) : \E ll \in DragTargets : cms[k].lat = ll.lat})

\* Dragging the markers of gates and checkpoints, with tracks timed.
DragBudget == 4        \* tracks loaded + pairs and checkpoints held + runs in flight
                       \* + markers moved

NextDrag ==
    /\ \/ ProcessFile
       \/ \E c \in MapCenters : AddGatePair(c)
       \/ \E p \in PairIdsInUse : StartEditing(p)
       \/ \E p \in PairIdsInUse : SaveAndConfirmGate(p)
       \/ \E p \in PairIdsInUse : AddCheckpoint(p)
       \/ \E k \in 1..Len(runs) : RecalcResponse(k, TRUE)
       \/ \E k \in 1..Len(gateMarkers), ll \in DragTargets : GateDragEnd(k, ll)
       \/ \E k \in 1..Len(checkpointMarkers), ll \in DragTargets : CheckpointDragEnd(k, ll)
    /\ loadedCount' + Cardinality(UsedPairIds(timeGates'))
          + CheckpointCount(pairCheckpoints', DOMAIN pairCheckpoints')
          + Len(runs') + MovedCount(gateMarkers', checkpointMarkers') <= DragBudget

SpecDrag == Init /\ [][NextDrag]_vars

\* Loading a course over an edited model with timed tracks; the fetch may fail.
FetchBudget == 4       \* tracks loaded + pairs held + requests awaiting an answer

NextFetch ==
    /\ \/ ProcessFile
       \/ \E c \in MapCenters : AddGatePair(c)
       \/ \E p \in PairIdsInUse : SaveAndConfirmGate(p)
       \/ \E id \in CourseIds : LoadCourse(id)
       \/ \E k \in 1..Len(courseFetches), ok \in BOOLEAN : CourseResponse(k, ok)
       \/ \E k \in 1..Len(lbFetches), ok \in BOOLEAN : LeaderboardResponse(k, ok)
       \/ \E k \in 1..Len(runs) : RecalcResponse(k, TRUE)
    /\ loadedCount' + Cardinality(UsedPairIds(timeGates'))
          + Len(courseFetches') + Len(lbFetches') + Len(runs') <= FetchBudget

SpecFetch == Init /\ [][NextFetch]_vars

\* Leaving a course, loaded or under edit, for a new one or for none.
ResetBudget == 3       \* tracks loaded + pairs and checkpoints held + requests awaiting
                       \* an answer

NextReset ==
    /\ \/ StartNewCourse
       \/ DeselectCourse
       \/ ProcessFile
       \/ \E c \in MapCenters : AddGatePair(c)
       \/ \E p \in PairIdsInUse : AddCheckpoint(p)
       \/ \E id \in CourseIds : LoadCourse(id)
       \/ \E k \in 1..Len(courseFetches) : CourseResponse(k, TRUE)
       \/ \E k \in 1..Len(lbFetches) : LeaderboardResponse(k, TRUE)
       \/ \E k \in 1..Len(runs) : RecalcResponse(k, TRUE)
    /\ loadedCount' + Cardinality(UsedPairIds(timeGates'))
          + CheckpointCount(pairCheckpoints', DOMAIN pairCheckpoints')
          + Len(courseFetches') + Len(lbFetches') + Len(runs') <= ResetBudget

SpecReset == Init /\ [][NextReset]_vars

\* The checkpoints of pairs: added, dragged, removed, loaded with a course.
CheckpointBudget == 4  \* pairs and checkpoints held + markers moved + course fetches

NextCheckpoints ==
    /\ \/ \E c \in MapCenters : AddGatePair(c)
       \/ \E p \in PairIdsInUse : RemoveGatePair(p)
       \/ \E p \in PairIdsInUse : AddCheckpoint(p)
       \/ \E p \in PairIdsInUse : RemoveLastCheckpoint(p)
       \/ \E k \in 1..Len(checkpointMarkers), ll \in DragTargets : CheckpointDragEnd(k, ll)
       \/ LoadCourse(1)
       \/ \E k \in 1..Len(courseFetches) : CourseResponse(k, TRUE)
       \/ \E k \in 1..Len(lbFetches) : LeaderboardResponse(k, TRUE)
    /\ Cardinality(UsedPairIds(timeGates'))
          + CheckpointCount(pairCheckpoints', DOMAIN pairCheckpoints')
          + MovedCount(<< >>, checkpointMarkers') + Len(courseFetches') <= CheckpointBudget

SpecCheckpoints == Init /\ [][NextCheckpoints]_vars

\* Saving the course under edit: the form, the validations, the requests of
\* saveAdvancedCourse and the load of the course created.
SaveBudget == 2        \* pairs held + requests awaiting an answer

NextSave ==
    /\ \/ \E c \in MapCenters : AddGatePair(c)
       \/ \E p \in PairIdsInUse : SaveAndConfirmGate(p)
       \/ \E name \in CourseNames : SetCourseName(name)
       \/ \E file \in BOOLEAN : OnCourseImageSelect(file)
       \/ SaveAdvancedCourse
       \/ \E k \in 1..Len(saveFetches), ok \in BOOLEAN, thrown \in BOOLEAN, created \in CourseIds :
             SaveResponse(k, ok, thrown, created)
       \/ \E k \in 1..Len(listFetches), ok \in BOOLEAN, list \in ServerLists :
             ListResponse(k, ok, list)
       \/ \E k \in 1..Len(courseFetches), ok \in BOOLEAN : CourseResponse(k, ok)
       \/ \E k \in 1..Len(lbFetches), ok \in BOOLEAN : LeaderboardResponse(k, ok)
    /\ Cardinality(UsedPairIds(timeGates')) + Len(saveFetches') + Len(listFetches')
          + Len(courseFetches') + Len(lbFetches') <= SaveBudget

SpecSave == Init /\ [][NextSave]_vars

\* the course list: mount, panels and the answers to GET /courses_summary
NextList ==
    \/ MountedHook
    \/ \E panel \in Panels \cup {NoPanel} : SetActivePanel(panel)
    \/ OpenCoursesModal
    \/ \E k \in 1..Len(listFetches), ok \in BOOLEAN, list \in ServerLists :
          ListResponse(k, ok, list)

SpecList == Init /\ [][NextList]_vars


\* The aggregator on every flat gate collection of up to MaxFlatGates gates:
\* SpecAggregator varies the gates' flags, SpecNames the names.
MaxFlatGates == 3
FlatPairIds == {1, 2}

FlatCollections(gateSet) == UNION {[1..n -> gateSet] : n \in 0..MaxFlatGates}

FlaggedGates ==
    [pairId : FlatPairIds, name : {"G"}, type : GateTypes, lat : {0}, lon : {0},
     confirmed : BOOLEAN, editing : BOOLEAN]

NamedGates ==
    [pairId : FlatPairIds, name : {"", "G"}, type : GateTypes, lat : {0}, lon : {0},
     confirmed : {TRUE}, editing : {FALSE}]

CustomNameMaps ==
    {EmptyMap, [x \in {1} |-> ""], [x \in {1} |-> "C"], [x \in {1, 2} |-> "C"]}

InitFlat(gateSet, nameMaps) ==
    /\ timeGates \in FlatCollections(gateSet)
    /\ pairNames \in nameMaps
    /\ pairCheckpoints = EmptyMap
    /\ bufferMeters = DefaultBufferMeters
    /\ isCreatingCourse = TRUE
    /\ selectedCourseId = Null
    /\ selectedCourse = Null
    /\ leaderboard = << >>
    /\ gateMarkers = << >>
    /\ checkpointMarkers = << >>
    /\ tracks = << >>
    /\ selectedTrackIds = << >>
    /\ trackLayers = << >>
    /\ runs = << >>
    /\ loadedCount = 0
    /\ issued = EmptyMap
    /\ courseFetches = << >>
    /\ lbFetches = << >>
    /\ mounted = FALSE
    /\ activePanel = NoPanel
    /\ refreshingCourses = FALSE
    /\ listFetches = << >>
    /\ courses = << >>
    /\ coursesGrid = << >>
    /\ newCourse = EmptyForm
    /\ saveFetches = << >>
    /\ lastCall = Call("createState", 0, << >>)

NextAggregator == RedrawGatesCall

SpecAggregator == InitFlat(FlaggedGates, {EmptyMap}) /\ [][NextAggregator]_vars

SpecNames == InitFlat(NamedGates, CustomNameMaps) /\ [][NextAggregator]_vars

(***************************************************************************)
(* Properties.                                                             *)
(***************************************************************************)
CallsOf(call, name) == \E k \in 1..Len(call.calls) : call.calls[k] = name

GateIndexes(gates, pairId, type) ==
    {i \in 1..Len(gates) : gates[i].pairId = pairId /\ gates[i].type = type}

HasGate(gates, pairId, type) == GateIndexes(gates, pairId, type) # {}

\* the gate of that pair and type a pair carries: the last one in the list
CarriedGate(gates, pairId, type) ==
    gates[CHOOSE i \in GateIndexes(gates, pairId, type) :
              \A j \in GateIndexes(gates, pairId, type) : j <= i]

AggregatedIds(pairs) == {pairs[k].pairId : k \in 1..Len(pairs)}

EditingPairIds(gates) == {gates[i].pairId : i \in {j \in 1..Len(gates) : gates[j].editing}}

\* C4: in every reachable state at most one gate pair has editing = true.
AtMostOnePairEditing == Cardinality(EditingPairIds(timeGates)) <= 1

\* C5: after startEditing(p) exactly the gates of pair p have editing = true;
\* a pair that was unconfirmed and editing before the call is unconfirmed and
\* not editing after it; at most one pair is being edited.
StartEditingExclusive ==
    [][lastCall'.op = "startEditing" =>
        /\ Len(timeGates') = Len(timeGates)
        /\ \A i \in 1..Len(timeGates) :
              /\ timeGates'[i].pairId = timeGates[i].pairId
              /\ timeGates'[i].editing = (timeGates[i].pairId = lastCall'.arg)
              /\ (/\ timeGates[i].pairId # lastCall'.arg
                  /\ ~timeGates[i].confirmed
                  /\ timeGates[i].editing)
                 => (~timeGates'[i].confirmed /\ ~timeGates'[i].editing)
        /\ EditingPairIds(timeGates') = {lastCall'.arg}
    ]_vars

\* C5 witness: startEditing(2) was called while pair 1 was unconfirmed.
StartEditingWitness ==
    /\ lastCall.op = "startEditing"
    /\ lastCall.arg = 2
    /\ \E i \in 1..Len(timeGates) :
          timeGates[i].pairId = 1 /\ ~timeGates[i].confirmed /\ ~timeGates[i].editing
    /\ \A i \in 1..Len(timeGates) : timeGates[i].pairId = 2 => timeGates[i].editing

\* C8: nextPairId returns the smallest positive integer that is no pairId in
\* timeGates, and the pair addGatePair has just added carries an id that no
\* other gate carries.
NextPairIdSmallestUnused ==
    /\ nextPairId >= 1
    /\ nextPairId \notin PairIdsInUse
    /\ \A j \in 1..(nextPairId - 1) : j \in PairIdsInUse
    /\ lastCall.op = "addGatePair" =>
          Cardinality({i \in 1..Len(timeGates) : timeGates[i].pairId = lastCall.arg}) = 2

\* C8 witness: id 1 was given again after pair 1 had been removed while
\* pair 2 stayed.
NextPairIdWitness ==
    /\ lastCall.op = "addGatePair"
    /\ lastCall.arg = 1
    /\ Len(timeGates) = 4
    /\ timeGates[1].pairId = 2

\* C9: the aggregator's output holds a pair with id p iff timeGates holds a
\* start gate and an end gate of p (once); its confirmed is the AND of the
\* confirmed flags of the two gates it carries, its editing the OR of their
\* editing flags.
AggregatorPairsExact ==
    /\ \A p \in FlatPairIds \cup PairIdsInUse :
          (p \in AggregatedIds(gatePairs)) <=>
              (HasGate(timeGates, p, "start") /\ HasGate(timeGates, p, "end"))
    /\ Cardinality(AggregatedIds(gatePairs)) = Len(gatePairs)
    /\ \A k \in 1..Len(gatePairs) :
          LET q == gatePairs[k]
              s == CarriedGate(timeGates, q.pairId, "start")
              e == CarriedGate(timeGates, q.pairId, "end")
          IN  /\ q.start = <<s>>
              /\ q.end = <<e>>
              /\ q.confirmed = (s.confirmed /\ e.confirmed)
              /\ q.editing = (s.editing \/ e.editing)

\* C9 witness: a pair whose start gate alone is confirmed and whose end gate
\* alone is being edited, beside a lone gate of another pair, was aggregated.
AggregatorWitness ==
    /\ lastCall.op = "redrawGates"
    /\ Len(timeGates) = 3
    /\ Len(gatePairs) = 1
    /\ LET q == gatePairs[1]
       IN  /\ q.start[1].confirmed /\ ~q.end[1].confirmed
           /\ ~q.start[1].editing /\ q.end[1].editing
           /\ ~q.confirmed /\ q.editing
    /\ Cardinality(PairIdsInUse) = 2

\* the non-empty names the gates of a pair carry, and the last of them
CarriedNameIndexes(gates, pairId) ==
    {i \in 1..Len(gates) : gates[i].pairId = pairId /\ gates[i].name # ""}

LastCarriedName(gates, pairId) ==
    gates[CHOOSE i \in CarriedNameIndexes(gates, pairId) :
              \A j \in CarriedNameIndexes(gates, pairId) : j <= i].name

HasCustomName(names, pairId) == pairId \in DOMAIN names /\ names[pairId] # ""

\* C10: the name of every aggregated pair is its custom name in pairNames when
\* one (a non-empty one) is set, otherwise the name its gates carry, otherwise
\* "Gate Pair {pairId}"; pair 1 without any name is "Gate Pair 1".
PairNamePrecedence ==
    \A k \in 1..Len(gatePairs) :
        LET q == gatePairs[k] IN
        /\ HasCustomName(pairNames, q.pairId) => q.name = pairNames[q.pairId]
        /\ (/\ ~HasCustomName(pairNames, q.pairId)
            /\ CarriedNameIndexes(timeGates, q.pairId) # {})
           => q.name = LastCarriedName(timeGates, q.pairId)
        /\ (/\ ~HasCustomName(pairNames, q.pairId)
            /\ CarriedNameIndexes(timeGates, q.pairId) = {})
           => /\ q.name = DefaultName(q.pairId)
              /\ q.pairId = 1 => q.name = "Gate Pair 1"

\* C10 witness: pair 1 was aggregated with an empty custom name and gates
\* that carry no name.
PairNameWitness ==
    /\ lastCall.op = "redrawGates"
    /\ Len(gatePairs) = 1
    /\ gatePairs[1].pairId = 1
    /\ gatePairs[1].name = "Gate Pair 1"
    /\ pairNames = [x \in {1} |-> ""]
    /\ CarriedNameIndexes(timeGates, 1) = {}

\* the part of a map that is not about pairId
MapWithout(m, pairId) == [x \in (DOMAIN m) \ {pairId} |-> m[x]]

\* C7: after removeGatePair(p) no gate, checkpoint entry, custom name or
\* aggregated pair of p is left, every other pair is as before, and the
\* handler has redrawn the gates and called recalcAllSegmentTimes.
RemoveGatePairComplete ==
    [][lastCall'.op = "removeGatePair" =>
        LET p == lastCall'.arg IN
        /\ p \notin UsedPairIds(timeGates')
        /\ p \notin DOMAIN pairCheckpoints'
        /\ p \notin DOMAIN pairNames'
        /\ p \notin AggregatedIds(GatePairsOf(timeGates', pairCheckpoints', pairNames'))
        /\ timeGates' = SelectSeq(timeGates, LAMBDA g : g.pairId # p)
        /\ pairCheckpoints' = MapWithout(pairCheckpoints, p)
        /\ pairNames' = MapWithout(pairNames, p)
        /\ GatePairsOf(timeGates', pairCheckpoints', pairNames')
              = SelectSeq(gatePairs, LAMBDA q : q.pairId # p)
        /\ lastCall'.calls = <<"redrawGates", "recalcAllSegmentTimes">>
        /\ Len(gateMarkers') = Len(timeGates')
        /\ \A k \in 1..Len(gateMarkers') : gateMarkers'[k].pairId # p
        /\ \A k \in 1..Len(checkpointMarkers') : checkpointMarkers'[k].pairId # p
    ]_vars

\* C7 witness: pair 1 was removed while confirmed pair 2, with a checkpoint
\* and a custom name, stayed.
RemoveGatePairWitness ==
    /\ lastCall.op = "removeGatePair"
    /\ lastCall.arg = 1
    /\ PairIdsInUse = {2}
    /\ Len(gatePairs) = 1
    /\ gatePairs[1].confirmed
    /\ Len(gatePairs[1].checkpoints) = 1
    /\ DOMAIN pairNames = {2}
    /\ Len(checkpointMarkers) = 1

\* what a course holds for pair id p
CoursePairIds(c) == {c.gates[k].pairId : k \in 1..Len(c.gates)}

LoadSucceeded(call) == call.op = "loadSelectedCourse" /\ CallsOf(call, "redrawGates")

\* C6: right after loadSelectedCourse has received its course, timeGates,
\* pairCheckpoints and pairNames hold exactly the pairs, checkpoints and names
\* of that course, every gate confirmed and not editing; the step that
\* receives the course is the step that leaves the model in that state.
LoadReplacesModel ==
    LoadSucceeded(lastCall) =>
        LET c == ServerCourse(lastCall.arg) IN
        /\ Len(timeGates) = 2 * Len(c.gates)
        /\ PairIdsInUse = CoursePairIds(c)
        /\ DOMAIN pairCheckpoints = CoursePairIds(c)
        /\ DOMAIN pairNames = CoursePairIds(c)
        /\ \A i \in 1..Len(timeGates) : timeGates[i].confirmed /\ ~timeGates[i].editing
        /\ \A k \in 1..Len(c.gates) :
              LET g == c.gates[k]
                  s == timeGates[2 * k - 1]
                  e == timeGates[2 * k]
              IN  /\ s.pairId = g.pairId /\ s.type = "start" /\ s.name = g.name
                  /\ s.lat = g.start.lat /\ s.lon = g.start.lon
                  /\ e.pairId = g.pairId /\ e.type = "end" /\ e.name = g.name
                  /\ e.lat = g.end.lat /\ e.lon = g.end.lon
                  /\ pairCheckpoints[g.pairId] = g.checkpoints
                  /\ pairNames[g.pairId] = g.name
        /\ selectedCourse = c.id
        /\ bufferMeters = c.buffer_m
        /\ ~isCreatingCourse
        /\ Len(gateMarkers) = Len(timeGates)

\* C6 witness: course 2 (one pair) has just been loaded.
LoadReplacesWitness ==
    /\ LoadSucceeded(lastCall)
    /\ lastCall.arg = 2
    /\ Len(timeGates) = 2
    /\ PairIdsInUse = {2}

\* C3: a recalcAllSegmentTimes call made while no pair is confirmed leaves
\* every loaded track with segmentTimes = [] and issues no request.
NoGatesClearsAll ==
    [][(/\ CallsOf(lastCall', "recalcAllSegmentTimes")
        /\ PayloadOf(GatePairsOf(timeGates', pairCheckpoints', pairNames')) = << >>) =>
        /\ \A i \in 1..Len(tracks') : tracks'[i].segmentTimes = << >>
        /\ runs' = runs
        /\ issued' \in {issued} \cup
              {[x \in D |-> issued[x]] : D \in SUBSET (DOMAIN issued)}
    ]_vars

\* C3 witness: all gates were cleared with two tracks loaded, one of them
\* with points, and both now have empty segmentTimes.
NoGatesClearsWitness ==
    /\ lastCall.op = "clearAllGates"
    /\ Len(tracks) = 2
    /\ \E i \in 1..Len(tracks) : Len(tracks[i].points) > 0
    /\ \A i \in 1..Len(tracks) : tracks[i].segmentTimes = << >>

\* the first position after i in arr that holds a track with points (0: none)
NextWithPoints(arr, i) ==
    IF \E j \in (i + 1)..Len(arr) : Len(arr[j].points) > 0
    THEN CHOOSE j \in (i + 1)..Len(arr) :
            /\ Len(arr[j].points) > 0
            /\ \A h \in (i + 1)..(j - 1) : Len(arr[h].points) = 0
    ELSE 0

\* the step taken on the answer to the request of run r: only the track of
\* the request is written (seg), tracks with points are otherwise untouched,
\* and the run goes on to its next track with points
AnsweredStep(r, seg) ==
    LET id == RequestOf(r).track
        n == NextWithPoints(r.arr, r.idx)
    IN  /\ Len(tracks') = Len(tracks)
        /\ \A i \in 1..Len(tracks) :
              /\ tracks[i].id = id => tracks'[i].segmentTimes = seg
              /\ (tracks[i].id # id /\ Len(tracks[i].points) > 0)
                 => tracks'[i].segmentTimes = tracks[i].segmentTimes
              /\ (tracks[i].id # id /\ Len(tracks[i].points) = 0)
                 => tracks'[i].segmentTimes \in {tracks[i].segmentTimes, << >>}
        /\ IF n = 0 THEN Len(runs') = Len(runs) - 1
           ELSE \E k \in 1..Len(runs') :
                   /\ runs'[k].idx = n
                   /\ runs'[k].arr = r.arr
                   /\ runs'[k].gates = r.gates
                   /\ runs'[k].buffer_m = r.buffer_m

\* C1: a failed request empties the segmentTimes of its own track only and
\* the run goes on; a request that succeeds stores the returned segment list
\* on its track.
FailureIsolatedPerTrack ==
    [][/\ lastCall'.op = "segmentTimesFailure" =>
            \E k \in 1..Len(runs) :
                /\ RequestOf(runs[k]).track = lastCall'.arg
                /\ AnsweredStep(runs[k], << >>)
       /\ lastCall'.op = "segmentTimesResponse" =>
            \E k \in 1..Len(runs) :
                /\ RequestOf(runs[k]).track = lastCall'.arg
                /\ AnsweredStep(runs[k], Segments(RequestOf(runs[k]).points,
                                                  runs[k].gates, runs[k].buffer_m))
    ]_vars

\* C1 witness: in one run the request of track 1 failed and the request of
\* track 2 succeeded.
FailureIsolatedWitness ==
    /\ lastCall.op = "segmentTimesResponse"
    /\ lastCall.arg = 2
    /\ runs = << >>
    /\ Len(tracks) = 2
    /\ DOMAIN issued = {1, 2}
    /\ issued[1].status = "failed" /\ tracks[1].segmentTimes = << >>
    /\ issued[2].status = "ok" /\ Len(tracks[2].segmentTimes) > 0
    /\ tracks[2].segmentTimes # NoSegmentTimes

AwaitedTracks == {RequestOf(runs[k]).track : k \in 1..Len(runs)}

\* C2: once no request for a track is outstanding, the track's segmentTimes
\* is the result of the most recently issued request for it.
LatestRequestWins ==
    \A i \in 1..Len(tracks) :
        LET id == tracks[i].id IN
        (id \in DOMAIN issued /\ id \notin AwaitedTracks) =>
            tracks[i].segmentTimes =
                IF issued[id].status = "ok"
                THEN Segments(issued[id].points, issued[id].gates, issued[id].buffer_m)
                ELSE << >>

RefreshInFlight == \E k \in 1..Len(listFetches) : listFetches[k].then = "refresh"

\* C11: a refreshCoursesGrid call made while an earlier one still awaits its
\* list issues no fetch and changes nothing (the panel its caller switched to
\* apart).
RefreshGuardNoOp ==
    [][(CallsOf(lastCall', "refreshCoursesGrid") /\ RefreshInFlight) =>
        /\ listFetches' = listFetches
        /\ refreshingCourses' = refreshingCourses
        /\ courses' = courses
        /\ coursesGrid' = coursesGrid
        /\ UNCHANGED <<gateVars, courseVars, leaderboard, trackVars, runVars, netVars,
                       mounted, newCourse, saveFetches>>
    ]_vars

\* C11 witness: openCoursesModal called refreshCoursesGrid, which returned at
\* its guard while the list of an earlier refresh was still awaited.
RefreshGuardWitness ==
    /\ lastCall.op = "openCoursesModal"
    /\ lastCall.calls = <<"refreshCoursesGrid">>
    /\ refreshingCourses
    /\ Len(listFetches) = 1
    /\ listFetches[1].then = "refresh"

\* C12: at no time are two GET /courses_summary fetches in flight.
OneListFetchAtATime == Len(listFetches) <= 1

\* the last element of runs
LastRun(rs) == rs[Len(rs)]

\* C13: after saveAndConfirmGate(p) both gates of p are confirmed and not
\* editing, pairNames[p] is the display name of the pair, the gates of the
\* other pairs are unchanged, the gates are redrawn, a recalcAllSegmentTimes
\* run was started on the new payload and the leaderboard of the active
\* course is fetched.
SaveAndConfirmComplete ==
    [][lastCall'.op = "saveAndConfirmGate" =>
        LET p == lastCall'.arg
            before == FindPair(gatePairs, p)
            after == FindPair(GatePairsOf(timeGates', pairCheckpoints', pairNames'), p)
            payload == PayloadOf(GatePairsOf(timeGates', pairCheckpoints', pairNames'))
        IN
        /\ Len(timeGates') = Len(timeGates)
        /\ \A i \in 1..Len(timeGates) :
              IF timeGates[i].pairId = p
              THEN /\ timeGates'[i].confirmed /\ ~timeGates'[i].editing
                   /\ timeGates'[i].pairId = p
                   /\ timeGates'[i].type = timeGates[i].type
                   /\ timeGates'[i].lat = timeGates[i].lat
                   /\ timeGates'[i].lon = timeGates[i].lon
              ELSE timeGates'[i] = timeGates[i]
        /\ before # << >>
        /\ pairNames'[p] = before[1].name
        /\ after[1].name = before[1].name
        /\ after[1].confirmed /\ ~after[1].editing
        /\ \A q \in (DOMAIN pairNames) \ {p} : pairNames'[q] = pairNames[q]
        /\ pairCheckpoints' = pairCheckpoints
        /\ lastCall'.calls = <<"redrawGates", "recalcAllSegmentTimes", "fetchLeaderboard">>
        /\ Len(gateMarkers') = Len(timeGates')
        /\ \A i \in 1..Len(timeGates') :
              gateMarkers'[i].pairId = timeGates'[i].pairId /\
              gateMarkers'[i].draggable = (timeGates'[i].pairId # p /\
                                           (timeGates[i].editing \/ ~timeGates[i].confirmed))
        /\ IF \E i \in 1..Len(tracks) : Len(tracks[i].points) > 0
           THEN /\ Len(runs') = Len(runs) + 1
                /\ LastRun(runs').gates = payload
                /\ \E k \in 1..Len(payload) : payload[k].pairId = p
           ELSE runs' = runs
        /\ IF selectedCourseId = Null
           THEN leaderboard' = << >> /\ lbFetches' = lbFetches
           ELSE /\ lbFetches' = Append(lbFetches, [courseId |-> selectedCourseId,
                                                   thenRecalc |-> FALSE])
                /\ leaderboard' = leaderboard
    ]_vars

\* C13 witness: a pair added to a loaded course was confirmed while a track
\* with points was loaded: a run on both pairs and a leaderboard fetch are in
\* flight.
SaveAndConfirmWitness ==
    /\ lastCall.op = "saveAndConfirmGate"
    /\ selectedCourseId # Null
    /\ selectedCourse # Null
    /\ Len(timeGates) = 4
    /\ \A i \in 1..Len(timeGates) : timeGates[i].confirmed /\ ~timeGates[i].editing
    /\ lastCall.arg \in DOMAIN pairNames
    /\ pairNames[lastCall.arg] = DefaultName(lastCall.arg)
    /\ Len(runs) = 2
    /\ LastRun(runs).gates = gatePairsToApiPayload
    /\ Len(LastRun(runs).gates) = 2
    /\ Len(lbFetches) = 1

\* the operations after which C14 requires a recalcAllSegmentTimes call
RecalcTriggers ==
    {"saveAndConfirmGate", "removeGatePair", "clearAllGates", "startNewCourse",
     "deselectCourse", "processFile", "importStravaActivity"}

\* C14: every operation that confirms or removes gates, and every track
\* loaded, is followed by a call of recalcAllSegmentTimes (for
\* loadSelectedCourse: once the leaderboard it awaits has answered).
RecalcAfterEveryChange ==
    [][/\ lastCall'.op \in RecalcTriggers => CallsOf(lastCall', "recalcAllSegmentTimes")
       /\ LoadSucceeded(lastCall') =>
             \/ CallsOf(lastCall', "recalcAllSegmentTimes")
             \/ \E k \in 1..Len(lbFetches') : lbFetches'[k].thenRecalc
    ]_vars

\* the tracks redrawTracks() has to draw
DrawnTrackIds ==
    {tracks[i].id : i \in {j \in 1..Len(tracks) :
        /\ Len(tracks[j].points) > 0
        /\ \E k \in 1..Len(selectedTrackIds) : selectedTrackIds[k] = tracks[j].id}}

LayersOf(id, kind) ==
    {k \in 1..Len(trackLayers) : trackLayers[k].track = id /\ trackLayers[k].kind = kind}

\* C15: the rendered primitives match the model: one gate marker per gate of
\* timeGates, one checkpoint marker per checkpoint of each aggregated pair,
\* and one polyline and two end markers per track that is selected and has
\* points; nothing else is drawn.
RenderMatchesModel ==
    /\ Len(gateMarkers) = Len(timeGates)
    /\ \A i \in 1..Len(timeGates) :
          /\ gateMarkers[i].gate = i
          /\ gateMarkers[i].pairId = timeGates[i].pairId
          /\ gateMarkers[i].type = timeGates[i].type
          /\ gateMarkers[i].lat = timeGates[i].lat
          /\ gateMarkers[i].lon = timeGates[i].lon
    /\ \A k \in 1..Len(gatePairs) : \A n \in 1..Len(gatePairs[k].checkpoints) :
          Cardinality({m \in 1..Len(checkpointMarkers) :
                          /\ checkpointMarkers[m].pairId = gatePairs[k].pairId
                          /\ checkpointMarkers[m].idx = n
                          /\ checkpointMarkers[m].lat = gatePairs[k].checkpoints[n].lat
                          /\ checkpointMarkers[m].lon = gatePairs[k].checkpoints[n].lon}) = 1
    /\ \A m \in 1..Len(checkpointMarkers) :
          \E k \in 1..Len(gatePairs) :
              /\ gatePairs[k].pairId = checkpointMarkers[m].pairId
              /\ checkpointMarkers[m].idx \in 1..Len(gatePairs[k].checkpoints)
    /\ Cardinality({<<checkpointMarkers[m].pairId, checkpointMarkers[m].idx>> :
                       m \in 1..Len(checkpointMarkers)}) = Len(checkpointMarkers)
    /\ \A id \in DrawnTrackIds :
          /\ Cardinality(LayersOf(id, "polyline")) = 1
          /\ Cardinality(LayersOf(id, "start")) = 1
          /\ Cardinality(LayersOf(id, "end")) = 1
    /\ Len(trackLayers) = 3 * Cardinality(DrawnTrackIds)
    /\ \A k \in 1..Len(trackLayers) : trackLayers[k].track \in DrawnTrackIds

\* C15 witness: a track with points was deselected, so nothing is drawn for
\* it, while the two markers of a pair are.
RenderMatchesWitness ==
    /\ lastCall.op = "toggleTrack"
    /\ Len(tracks) = 1
    /\ Len(tracks[1].points) > 0
    /\ selectedTrackIds = << >>
    /\ trackLayers = << >>
    /\ Len(gateMarkers) = 2

SelectedSet(selected) == {selected[k] : k \in 1..Len(selected)}

OtherIds(selected, id) == SelectSeq(selected, LAMBDA x : x # id)

PairOf(p) == gatePairs[CHOOSE k \in 1..Len(gatePairs) : gatePairs[k].pairId = p]

\* C17: the marker of a gate is draggable exactly if the gate is unconfirmed
\* or its pair is being edited, so the markers of a confirmed pair that is
\* not being edited are locked; the marker of a checkpoint is draggable
\* exactly if its pair is being edited.
DraggableIffUnlocked ==
    /\ \A k \in 1..Len(gateMarkers) :
          LET g == timeGates[gateMarkers[k].gate] IN
          gateMarkers[k].draggable <=> (~g.confirmed \/ PairOf(g.pairId).editing)
    /\ \A m \in 1..Len(checkpointMarkers) :
          checkpointMarkers[m].draggable <=> PairOf(checkpointMarkers[m].pairId).editing

\* C17 witness: a confirmed pair is edited again, so its gate markers and its
\* checkpoint marker can be dragged although the gates are confirmed.
DraggableWitness ==
    /\ lastCall.op = "startEditing"
    /\ \E k \in 1..Len(gateMarkers) :
          gateMarkers[k].draggable /\ timeGates[gateMarkers[k].gate].confirmed
    /\ \E m \in 1..Len(checkpointMarkers) : checkpointMarkers[m].draggable

\* C18: a drag-end on a gate marker changes the latitude and longitude of
\* that gate only, one on a checkpoint marker those of that checkpoint only;
\* neither redraws, starts a segment-time run or issues a request, and the
\* other gates and checkpoints, the flags, names and track results stay.
DragEndFrame ==
    [][ /\ lastCall'.op = "gateDragEnd" =>
            LET i == gateMarkers[lastCall'.arg].gate IN
            /\ Len(timeGates') = Len(timeGates)
            /\ \A j \in 1..Len(timeGates) : j # i => timeGates'[j] = timeGates[j]
            /\ timeGates'[i] = [timeGates[i] EXCEPT !.lat = timeGates'[i].lat,
                                                    !.lon = timeGates'[i].lon]
            /\ pairCheckpoints' = pairCheckpoints
        /\ lastCall'.op = "checkpointDragEnd" =>
            LET m == checkpointMarkers[lastCall'.arg] IN
            /\ timeGates' = timeGates
            /\ DOMAIN pairCheckpoints' = DOMAIN pairCheckpoints
            /\ \A p \in DOMAIN pairCheckpoints :
                  /\ Len(pairCheckpoints'[p]) = Len(pairCheckpoints[p])
                  /\ \A n \in 1..Len(pairCheckpoints[p]) :
                        (p # m.pairId \/ n # m.idx)
                            => pairCheckpoints'[p][n] = pairCheckpoints[p][n]
        /\ lastCall'.op \in {"gateDragEnd", "checkpointDragEnd"} =>
            /\ lastCall'.calls = << >>
            /\ pairNames' = pairNames
            /\ tracks' = tracks
            /\ runs' = runs
            /\ issued' = issued
            /\ UNCHANGED <<netVars, courseVars, leaderboard, uiVars>>
            /\ Len(gateMarkers') = Len(gateMarkers)
            /\ \A k \in 1..Len(gateMarkers) :
                  gateMarkers'[k].draggable = gateMarkers[k].draggable
            /\ Len(checkpointMarkers') = Len(checkpointMarkers)
      ]_vars

\* C18 witness: the marker of a gate of a pair under edit was dropped at a
\* new place while a track holds the times computed before.
DragEndWitness ==
    /\ lastCall.op = "gateDragEnd"
    /\ \E i \in 1..Len(timeGates) :
          /\ timeGates[i].lat = 5
          /\ timeGates[i].confirmed
          /\ \E j \in 1..Len(timeGates) :
                timeGates[j].pairId = timeGates[i].pairId /\ timeGates[j].lat # 5
    /\ \E t \in 1..Len(tracks) : tracks[t].segmentTimes # NoSegmentTimes

\* saveAdvancedCourse() was invoked in the step (and not resumed after an await)
SaveInvoked ==
    /\ lastCall'.op = "saveAdvancedCourse"
    /\ lastCall'.calls \in {<<"alert">>, <<"apiPost">>}
    /\ Len(saveFetches') >= Len(saveFetches)

\* C19: saveAdvancedCourse invoked while no pair is confirmed, or while the
\* course name is empty, is blocked: no request is issued, and the gates,
\* checkpoints, names, the selected course and the new-course form stay.
SaveBlockedWithoutInput ==
    [][ (/\ SaveInvoked
         /\ \/ \A k \in 1..Len(gatePairs) : ~gatePairs[k].confirmed
            \/ newCourse.name = "")
        => /\ lastCall'.calls = <<"alert">>
           /\ saveFetches' = saveFetches
           /\ listFetches' = listFetches
           /\ UNCHANGED netVars
           /\ UNCHANGED <<timeGates, pairCheckpoints, pairNames>>
           /\ UNCHANGED <<selectedCourse, selectedCourseId>>
           /\ newCourse' = newCourse
      ]_vars

\* C19 witness: a save was blocked for its empty name although a pair is
\* confirmed and an image was chosen.
SaveBlockedWitness ==
    /\ lastCall.op = "saveAdvancedCourse"
    /\ lastCall.calls = <<"alert">>
    /\ saveFetches = << >>
    /\ newCourse.name = ""
    /\ newCourse.imageFile
    /\ \E k \in 1..Len(gatePairs) : gatePairs[k].confirmed
    /\ selectedCourse = Null

\* C20: when the course fetch of loadSelectedCourse fails, timeGates,
\* pairCheckpoints, pairNames, bufferMeters, selectedCourse, isCreatingCourse
\* and the tracks with their segmentTimes are as before the call; the course
\* stays chosen and its request is no longer awaited, so the load can be retried.
FailedLoadLeavesModel ==
    [][ (lastCall'.op = "loadSelectedCourse" /\ lastCall'.calls = <<"alert">>)
        => /\ UNCHANGED <<timeGates, pairCheckpoints, pairNames>>
           /\ UNCHANGED <<bufferMeters, selectedCourse, isCreatingCourse>>
           /\ tracks' = tracks
           /\ runs' = runs
           /\ selectedCourseId' = selectedCourseId
           /\ Len(courseFetches') = Len(courseFetches) - 1
      ]_vars

\* C20 witness: the fetch failed while a pair was under edit, another course
\* was loaded and a track held its segment times.
FailedLoadWitness ==
    /\ lastCall.op = "loadSelectedCourse"
    /\ lastCall.calls = <<"alert">>
    /\ timeGates # << >>
    /\ \E t \in 1..Len(tracks) : tracks[t].segmentTimes # NoSegmentTimes

\* C21: a failed course-list fetch leaves the courses held before, in courses
\* and in coursesGrid, as they were.
FailedListFetchKeepsCourses ==
    [][ (lastCall'.op = "loadCourses" /\ lastCall'.arg = 0 /\ lastCall'.calls = << >>)
        => (courses' = courses /\ coursesGrid' = coursesGrid) ]_vars

\* C22: startNewCourse and deselectCourse empty timeGates, pairCheckpoints,
\* pairNames and the leaderboard, clear selectedCourseId and selectedCourse
\* and put bufferMeters back to 10; the first enters Creating, the second
\* Viewing; neither changes tracks or selectedTrackIds.
CourseResetEffect ==
    [][ lastCall'.op \in {"startNewCourse", "deselectCourse"}
        => /\ timeGates' = << >>
           /\ pairCheckpoints' = EmptyMap
           /\ pairNames' = EmptyMap
           /\ leaderboard' = << >>
           /\ selectedCourseId' = Null
           /\ selectedCourse' = Null
           /\ bufferMeters' = 10
           /\ isCreatingCourse' = (lastCall'.op = "startNewCourse")
           /\ tracks' = tracks
           /\ selectedTrackIds' = selectedTrackIds
      ]_vars

\* C22 witness: a course was deselected while a track, still selected, holds
\* the segment times computed for its gates.
CourseResetWitness ==
    /\ lastCall.op = "deselectCourse"
    /\ ~isCreatingCourse
    /\ selectedTrackIds # << >>
    /\ \E t \in 1..Len(tracks) :
          /\ tracks[t].segmentTimes # NoSegmentTimes
          /\ tracks[t].segmentTimes # << >>

\* the checkpoints held for pair p, none if the map has no entry
StoredCheckpoints(cps, p) == IF p \in DOMAIN cps THEN cps[p] ELSE << >>

\* every pair other than p keeps its checkpoint sequence in the step
OthersKeepCheckpoints(p) ==
    \A q \in (DOMAIN pairCheckpoints \cup DOMAIN pairCheckpoints') \ {p} :
        StoredCheckpoints(pairCheckpoints', q) = StoredCheckpoints(pairCheckpoints, q)

\* C23: the order of a pair's checkpoints is kept by every operation:
\* addCheckpoint appends one checkpoint at the end, removeLastCheckpoint takes
\* the last one away (nothing from an empty or absent sequence), a drag moves
\* a checkpoint in its place, removeGatePair leaves the other pairs'
\* sequences, a loaded course brings its checkpoints in the stored order, no
\* other operation changes a sequence, and the aggregator and the payload
\* builder hand each sequence on as stored.
CheckpointOrderKept ==
    [][ LET op == lastCall'.op
            p == lastCall'.arg
            old == StoredCheckpoints(pairCheckpoints, p)
            new == StoredCheckpoints(pairCheckpoints', p)
            pairs == GatePairsOf(timeGates', pairCheckpoints', pairNames')
            payload == PayloadOf(pairs)
        IN
        /\ op = "addCheckpoint" =>
              /\ Len(new) = Len(old) + 1
              /\ SubSeq(new, 1, Len(old)) = old
              /\ OthersKeepCheckpoints(p)
        /\ op = "removeLastCheckpoint" =>
              /\ new = (IF Len(old) > 0 THEN SubSeq(old, 1, Len(old) - 1) ELSE old)
              /\ OthersKeepCheckpoints(p)
        /\ op = "checkpointDragEnd" =>
              LET m == checkpointMarkers[p] IN
              /\ Len(pairCheckpoints'[m.pairId]) = Len(pairCheckpoints[m.pairId])
              /\ \A n \in 1..Len(pairCheckpoints[m.pairId]) :
                    n # m.idx => pairCheckpoints'[m.pairId][n] = pairCheckpoints[m.pairId][n]
              /\ OthersKeepCheckpoints(m.pairId)
        /\ op = "removeGatePair" => OthersKeepCheckpoints(p)
        /\ (op = "loadSelectedCourse" /\ lastCall'.calls # <<"alert">>) =>
              \A i \in 1..Len(ServerCourse(p).gates) :
                  LET g == ServerCourse(p).gates[i] IN
                  StoredCheckpoints(pairCheckpoints', g.pairId) = g.checkpoints
        /\ op \notin {"addCheckpoint", "removeLastCheckpoint", "checkpointDragEnd",
                      "removeGatePair", "loadSelectedCourse", "startNewCourse",
                      "deselectCourse", "clearAllGates"} =>
              pairCheckpoints' = pairCheckpoints
        /\ \A k \in 1..Len(pairs) :
              pairs[k].checkpoints = StoredCheckpoints(pairCheckpoints', pairs[k].pairId)
        /\ \A k \in 1..Len(payload) :
              payload[k].checkpoints = StoredCheckpoints(pairCheckpoints', payload[k].pairId)
      ]_vars

\* C23 witness: a second checkpoint was added behind one that had been
\* dragged elsewhere, so the two differ and their order shows.
CheckpointOrderWitness ==
    /\ lastCall.op = "addCheckpoint"
    /\ \E p \in DOMAIN pairCheckpoints :
          /\ Len(pairCheckpoints[p]) = 2
          /\ pairCheckpoints[p][1].lat = 5
          /\ pairCheckpoints[p][2].lat # 5

\* what a run carries from its start to its end, and where it stands
RunCore(r) == [gates |-> r.gates, buffer_m |-> r.buffer_m, arr |-> r.arr, idx |-> r.idx]

RunCores(rs) == [k \in 1..Len(rs) |-> RunCore(rs[k])]

IsPrefix(a, b) == Len(a) <= Len(b) /\ SubSeq(b, 1, Len(a)) = a

AnswerOps == {"segmentTimesResponse", "segmentTimesFailure"}

\* C24: with a confirmed pair, a run of recalcAllSegmentTimes starts with the
\* payload and buffer read at its start and the tracks loaded, issues its
\* requests one track at a time for the tracks with points only (a track
\* without points gets an empty segmentTimes and no request), each request
\* carrying the track's own points and the payload and buffer of the start;
\* no other step, whatever it does to the gates, changes what a run carries.
RunRequestsPerTrack ==
    [][ /\ \A k \in 1..Len(runs') :
              LET q == RequestOf(runs'[k]) IN
              /\ Len(q.points) > 0
              /\ q.gates = runs'[k].gates /\ q.buffer_m = runs'[k].buffer_m
              /\ Len(q.gates) > 0
              /\ \A i \in 1..Len(tracks') :
                    tracks'[i].id = q.track => q.points = tracks'[i].points
        /\ lastCall'.op \in AnswerOps =>
              \E k \in 1..Len(runs) :
                  LET r == runs[k]
                      n == NextWithPoints(r.arr, r.idx)
                      last == IF n = 0 THEN Len(r.arr) ELSE n - 1
                  IN
                  /\ RequestOf(r).track = lastCall'.arg
                  /\ RunCores(runs') =
                        (IF n = 0 THEN RemoveAt(RunCores(runs), k)
                         ELSE [RunCores(runs) EXCEPT ![k].idx = n])
                  /\ \A j \in (r.idx + 1)..last : \A i \in 1..Len(tracks') :
                        tracks'[i].id = r.arr[j].id => tracks'[i].segmentTimes = << >>
        /\ lastCall'.op \notin AnswerOps =>
              /\ Len(runs') \in {Len(runs), Len(runs) + 1}
              /\ \A k \in 1..Len(runs) :
                    /\ runs'[k].gates = runs[k].gates
                    /\ runs'[k].buffer_m = runs[k].buffer_m
                    /\ runs'[k].idx = runs[k].idx
                    /\ IsPrefix(runs[k].arr, runs'[k].arr)
              /\ Len(runs') = Len(runs) + 1 =>
                    LET r == runs'[Len(runs')] IN
                    /\ CallsOf(lastCall', "recalcAllSegmentTimes")
                    /\ r.gates = PayloadOf(GatePairsOf(timeGates', pairCheckpoints', pairNames'))
                    /\ r.buffer_m = BufferOrDefault(bufferMeters')
                    /\ r.arr = ArrOf(tracks')
                    /\ r.idx = NextWithPoints(r.arr, 0)
                    /\ \A j \in 1..(r.idx - 1) : tracks'[j].segmentTimes = << >>
              /\ (/\ CallsOf(lastCall', "recalcAllSegmentTimes")
                  /\ PayloadOf(GatePairsOf(timeGates', pairCheckpoints', pairNames')) # << >>
                  /\ \E i \in 1..Len(tracks') : Len(tracks'[i].points) > 0)
                 => Len(runs') = Len(runs) + 1
      ]_vars

\* C24 witness: the run's second request is out for the second track with
\* the payload of the start, although the gates were cleared meanwhile.
RunRequestsWitness ==
    /\ lastCall.op \in AnswerOps
    /\ timeGates = << >>
    /\ Len(runs) = 1
    /\ runs[1].idx > 1
    /\ Len(runs[1].gates) > 0
    /\ RequestOf(runs[1]).track = tracks[runs[1].idx].id

PayloadEntriesOf(payload, p) == {i \in 1..Len(payload) : payload[i].pairId = p}

\* C25: gatePairsToApiPayload holds one entry for each aggregated pair that is
\* confirmed and none for any other pair; the entry carries the pair's id,
\* name, start and end coordinates and its checkpoints.
PayloadConfirmedOnly ==
    LET pairs == gatePairs
        payload == PayloadOf(pairs)
    IN
    /\ \A k \in 1..Len(pairs) :
          LET q == pairs[k] IN
          IF q.confirmed
          THEN /\ Cardinality(PayloadEntriesOf(payload, q.pairId)) = 1
               /\ \A i \in PayloadEntriesOf(payload, q.pairId) :
                     LET e == payload[i] IN
                     /\ e.name = q.name
                     /\ e.start = [lat |-> q.start[1].lat, lon |-> q.start[1].lon]
                     /\ e.end = [lat |-> q.end[1].lat, lon |-> q.end[1].lon]
                     /\ e.checkpoints = q.checkpoints
          ELSE PayloadEntriesOf(payload, q.pairId) = {}
    /\ \A i \in 1..Len(payload) :
          \E k \in 1..Len(pairs) :
              pairs[k].pairId = payload[i].pairId /\ pairs[k].confirmed

\* C25 witness: of two pairs the confirmed one, which has a checkpoint, is in
\* the payload and the one under edit is not.
PayloadConfirmedWitness ==
    /\ Len(gatePairs) = 2
    /\ \E k \in 1..2 : ~gatePairs[k].confirmed /\ gatePairs[k].checkpoints # << >>
    /\ Len(gatePairsToApiPayload) = 1
    /\ gatePairsToApiPayload[1].checkpoints # << >>

\* C26: the n-th track loaded (counting from 0) has palette entry n mod 8,
\* whatever was removed before it was loaded.
ColourByLoadOrder ==
    \A i \in 1..Len(tracks) : tracks[i].color = (tracks[i].id - 1) % PaletteSize

\* C29: selectedTrackIds holds no id twice and only ids of tracks that are in
\* tracks.
SelectionWithinTracks ==
    /\ Cardinality(SelectedSet(selectedTrackIds)) = Len(selectedTrackIds)
    /\ SelectedSet(selectedTrackIds) \subseteq TrackIds

GatesOfPair(p) == {i \in 1..Len(timeGates) : timeGates[i].pairId = p}

\* C27: every pairId in timeGates is carried by exactly two gates, one start
\* gate and one end gate, so every pair a confirm can name is complete.
PairsAreTwoGates ==
    \A p \in PairIdsInUse :
        /\ Cardinality(GatesOfPair(p)) = 2
        /\ Cardinality(GateIndexes(timeGates, p, "start")) = 1
        /\ Cardinality(GateIndexes(timeGates, p, "end")) = 1
        /\ p \in AggregatedIds(gatePairs)

\* C27 witness: a pair was added beside the pair of a loaded course.
PairsAreTwoGatesWitness ==
    /\ lastCall.op = "addGatePair"
    /\ selectedCourse # Null
    /\ Len(timeGates) = 4
    /\ Cardinality(PairIdsInUse) = 2

\* C28: the two gates of a pair always have the same confirmed flag and the
\* same editing flag, so an aggregated pair is confirmed iff each of its
\* gates is.
PairFlagsAgree ==
    /\ \A i, j \in 1..Len(timeGates) :
          timeGates[i].pairId = timeGates[j].pairId =>
              /\ timeGates[i].confirmed = timeGates[j].confirmed
              /\ timeGates[i].editing = timeGates[j].editing
    /\ \A k \in 1..Len(gatePairs) :
          /\ gatePairs[k].confirmed
                <=> (gatePairs[k].start[1].confirmed /\ gatePairs[k].end[1].confirmed)
          /\ gatePairs[k].confirmed
                <=> (\A i \in GatesOfPair(gatePairs[k].pairId) : timeGates[i].confirmed)

\* C28 witness: a confirmed pair is edited again beside the locked pair of a
\* loaded course: each pair has its two gates in the same state.
PairFlagsWitness ==
    /\ lastCall.op = "startEditing"
    /\ Len(timeGates) = 4
    /\ \E i \in 1..4 : timeGates[i].confirmed /\ timeGates[i].editing
    /\ \E i \in 1..4 : timeGates[i].confirmed /\ ~timeGates[i].editing

====
